---------------------------- MODULE Spec2Model ----------------------------
(***************************************************************************)
(* A model of the Z# to MiniZ compiler front end (xpodev/zs2miniz):        *)
(*   1. the import plumbing (ZSImporter, ZSCompiler.import_document),      *)
(*   2. the per-document pipeline of Toolchain.execute_document,           *)
(*   3. the objects stage (declare / define / require_definition),         *)
(*   4. the dependency finder that feeds the build order,                  *)
(*   5. overload matching (Function.match, OverloadGroup curvy_call),      *)
(*   6. scopes (Scope.lookup_name, Scope.create_*_name),                   *)
(*   7. the resolver (NodeRegistry, NodeResolver, NodeProcessor),          *)
(*   8. the code compiler and its stack of code contexts,                  *)
(*   9. the compilation of while loops, break and continue,                *)
(*  10. the import system's dispatch on the scheme of a source,            *)
(*  11. the tokenizer,                                                     *)
(*  12. the interpreter's when,                                            *)
(*  13. Function.match and Method.match with generic parameters,           *)
(*  14. the interpreter's call of an overload group.                       *)
(* Every part has its own specification; the variables of the other parts  *)
(* stay at their idle values.                                              *)
(***************************************************************************)
EXTENDS Integers, Sequences, FiniteSets, TLC

VARIABLES
    \* ---- 1. import plumbing ----
    imports,        \* imports[p]: the import sources of document p, in order
    toolchains,     \* the stack ZSCompiler.toolchain() builds, one entry per
                    \* import_document in progress: [path, documents, pc]
    runs,           \* runs[p]: how often the pipeline of p was started
    importLog,      \* every finished ZSImporter.import_file call
    messages,       \* State._messages, the shared error list (import part)
    nextObject,     \* identity of the next ZSImportResult allocated
    status          \* "idle" | "running" | "done" | "crashed"

VARIABLES
    \* ---- 2. the pipeline of one toolchain ----
    defects,        \* defects[p]: the stages in which the text of p makes the
                    \* stage call State.error
    documents,      \* CompilationContext._documents: path -> DocumentContext
    computed,       \* computed[p][s]: how often stage s of p was computed
    stageMessages,  \* State._messages (pipeline part): <<path, stage>>
    lastRequest,    \* the last execute_document call and what it returned
    requestCount    \* execute_document calls so far

VARIABLES
    \* ---- 3. the objects stage of one document ----
    ast,            \* the resolved document: fnName, retType, bodyRefs
    build_order,    \* DocumentContext.build_order
    cache,          \* Cache._cache: resolved node -> object
    heap,           \* the objects allocated so far, by identity
    built,          \* CompilerContext._built
    defineStack,    \* the define stages in progress, innermost last
    todo,           \* the (node, item) pairs handed to NodeCompiler.define
    cursor,         \* position in the list the current phase walks
    phase,          \* "declare" | "inject" | "define" | "done" | "crashed"
    events          \* what the stage did, in order

VARIABLES
    \* ---- 4. the dependency finder on a document of classes ----
    bases,          \* bases[c]: ResolvedClass.bases, in order
    findStack,      \* the finds of classes in progress, innermost last
    graph,          \* the DependencyGraph: nodes and edges
    findCursor,     \* position of the toolchain's loop over the nodes
    finderStatus,   \* "finding" | "ordered" | "overflow"
    finderMessages  \* State._messages (build order part)

VARIABLES
    \* ---- 5. overload matching ----
    group,          \* the OverloadGroup: overloads in declaration order, parent
    callSite,       \* the argument types of the call: args, kwargs
    callLog,        \* the curvy_calls made: the overloads then, the result
    signature,      \* the signature of the function Function.match is asked on
    matchLog        \* the Function.match calls made: strict, the result

VARIABLES
    \* ---- 6. scopes ----
    scopes,         \* scopes[i]: Scope._items of the i-th scope of a chain; the
                    \* parent of scope i is scope i - 1, scope 1 has none
    scopeLog        \* the Scope calls made: the call, the items before and
                    \* after it, how it ended

VARIABLES
    \* ---- 7. the resolver ----
    nodes,          \* NodeProcessor._nodes: the declarations added
    processor,      \* the NodeProcessor: the scopes of its context, the
                    \* node-to-scope mapping, the overload groups, the
                    \* resolver's _resolved set, what resolve returned
    resolveLog      \* the direct call of NodeResolver.resolve, if one was made

VARIABLES
    \* ---- 8. the code compiler ----
    contextStack,   \* CodeCompiler._code_context_stack
    compiled        \* the CodeCompiler.compile call just made, if the last
                    \* operation was one: the stack, the node, the result

VARIABLES
    \* ---- 9. while loops ----
    loopProgram,    \* the while loop that is compiled
    loopCode        \* what CodeCompiler.compile made of it, once compiled

VARIABLES
    \* ---- 10. the import system ----
    systems,        \* systems[i]: ImportSystem._importers of the i-th system:
                    \* scheme -> what the importer's import_from does
    imported        \* the ImportSystem.import_from call just made, if the last
                    \* operation was one: the source, the chain, the result

VARIABLES
    \* ---- 11. the tokenizer ----
    tokenizer       \* the run of Tokenizer.tokenize: the text, the position of
                    \* the stream, the tokens yielded, where the generator is,
                    \* and the string literal being read

VARIABLES
    \* ---- 12. the interpreter: when ----
    whenNode,       \* the When node that is executed
    whenRun         \* what its execution did, once it has run

VARIABLES
    \* ---- 13. matching: generic parameters and receivers ----
    matchCall,      \* the call of match: signature, arguments, strict,
                    \* type_mappings, instance, is_instance_bound
    matchReturn     \* what the call returned and left in type_mappings, and
                    \* whether it was Function.match or Method.match

VARIABLES
    \* ---- 14. the interpreter: the call of an overload group ----
    groupChain,     \* groupChain[g]: the overloads of the g-th group; the
                    \* parent of group g is group g + 1
    groupCall       \* the last OverloadGroup.call on group 1: the argument
                    \* types and what the call did

importVars == <<imports, toolchains, runs, importLog, messages, nextObject, status>>
pipelineVars == <<defects, documents, computed, stageMessages, lastRequest, requestCount>>

objectVars == <<ast, build_order, cache, heap, built, defineStack, todo, cursor, phase, events>>

finderVars == <<bases, findStack, graph, findCursor, finderStatus, finderMessages>>

overloadVars == <<group, callSite, callLog, signature, matchLog>>

scopeVars == <<scopes, scopeLog>>

resolverVars == <<nodes, processor, resolveLog>>

compilerVars == <<contextStack, compiled>>

loopVars == <<loopProgram, loopCode>>

systemVars == <<systems, imported>>

tokenizerVars == <<tokenizer>>

whenVars == <<whenNode, whenRun>>

callVars == <<matchCall, matchReturn>>

groupVars == <<groupChain, groupCall>>

vars == <<importVars, pipelineVars, objectVars, finderVars, overloadVars, scopeVars, resolverVars, compilerVars, loopVars, systemVars, tokenizerVars, whenVars, callVars, groupVars>>

\* What the actions of one part leave alone.
notImport == <<pipelineVars, objectVars, finderVars, overloadVars, scopeVars, resolverVars, compilerVars, loopVars, systemVars, tokenizerVars, whenVars, callVars, groupVars>>
notPipeline == <<importVars, objectVars, finderVars, overloadVars, scopeVars, resolverVars, compilerVars, loopVars, systemVars, tokenizerVars, whenVars, callVars, groupVars>>
notObjects == <<importVars, pipelineVars, finderVars, overloadVars, scopeVars, resolverVars, compilerVars, loopVars, systemVars, tokenizerVars, whenVars, callVars, groupVars>>
notFinder == <<importVars, pipelineVars, objectVars, overloadVars, scopeVars, resolverVars, compilerVars, loopVars, systemVars, tokenizerVars, whenVars, callVars, groupVars>>
notOverloads == <<importVars, pipelineVars, objectVars, finderVars, scopeVars, resolverVars, compilerVars, loopVars, systemVars, tokenizerVars, whenVars, callVars, groupVars>>
notScopes == <<importVars, pipelineVars, objectVars, finderVars, overloadVars, resolverVars, compilerVars, loopVars, systemVars, tokenizerVars, whenVars, callVars, groupVars>>
notResolver == <<importVars, pipelineVars, objectVars, finderVars, overloadVars, scopeVars, compilerVars, loopVars, systemVars, tokenizerVars, whenVars, callVars, groupVars>>
notCompiler == <<importVars, pipelineVars, objectVars, finderVars, overloadVars, scopeVars, resolverVars, loopVars, systemVars, tokenizerVars, whenVars, callVars, groupVars>>
notLoops == <<importVars, pipelineVars, objectVars, finderVars, overloadVars, scopeVars, resolverVars, compilerVars, systemVars, tokenizerVars, whenVars, callVars, groupVars>>
notSystems == <<importVars, pipelineVars, objectVars, finderVars, overloadVars, scopeVars, resolverVars, compilerVars, loopVars, tokenizerVars, whenVars, callVars, groupVars>>
notTokenizer == <<importVars, pipelineVars, objectVars, finderVars, overloadVars, scopeVars, resolverVars, compilerVars, loopVars, systemVars, whenVars, callVars, groupVars>>
notWhen == <<importVars, pipelineVars, objectVars, finderVars, overloadVars, scopeVars, resolverVars, compilerVars, loopVars, systemVars, tokenizerVars, callVars, groupVars>>
notCall == <<importVars, pipelineVars, objectVars, finderVars, overloadVars, scopeVars, resolverVars, compilerVars, loopVars, systemVars, tokenizerVars, whenVars, groupVars>>
notGroups == <<importVars, pipelineVars, objectVars, finderVars, overloadVars, scopeVars, resolverVars, compilerVars, loopVars, systemVars, tokenizerVars, whenVars, callVars>>

None == "None"

\* Python's None where the other values are not strings: Absent, and Some(v).
Absent == <<>>
Some(v) == <<v>>

(***************************************************************************)
(* 1. IMPORT PLUMBING                                                      *)
(***************************************************************************)

\* Bounds of the import model.
MaxImports == 2       \* import statements per document
MaxImportDepth == 3   \* nested import_document calls before Python gives up

Paths == {"a.zs", "b.zs"}
Missing == "missing.zs"            \* a source ImportSystem.resolve cannot find
Sources == Paths \cup {Missing}

SeqsUpTo(S, n) == UNION {[1..k -> S] : k \in 0..n}

\* ImportSystem.resolve: the path when the file exists, None otherwise.
resolve(source) == IF source \in Paths THEN source ELSE None

\* CompilationContext.get_document_context on the current toolchain.
get_document_context(tc, path) == IF path \in tc.documents THEN path ELSE None

\* ZSCompiler.current_toolchain: the innermost toolchain.
current_toolchain == toolchains[Len(toolchains)]

\* State.error: append a message, return None.
error(text) == Append(messages, text)

ImportInit ==
    /\ imports \in [Paths -> SeqsUpTo(Sources, MaxImports)]
    /\ toolchains = <<>>
    /\ runs = [p \in Paths |-> 0]
    /\ importLog = <<>>
    /\ messages = <<>>
    /\ nextObject = 1
    /\ status = "idle"

\* ZSCompiler.import_document(path): a fresh Toolchain (with a fresh
\* CompilationContext) becomes current and execute_document(path) registers
\* the document context in it and starts the pipeline.
import_document(path) ==
    /\ toolchains' = Append(toolchains, [path |-> path, documents |-> {path}, pc |-> 1])
    /\ runs' = [runs EXCEPT ![path] = @ + 1]

\* zs_main.main: compiler.import_document(options.source).
Main(p) ==
    /\ status = "idle"
    /\ import_document(p)
    /\ status' = "running"
    /\ UNCHANGED <<imports, importLog, messages, nextObject>>
    /\ UNCHANGED notImport

\* The import statement the current document is about to define.
CurrentSource == imports[current_toolchain.path][current_toolchain.pc]

AtImport ==
    /\ status = "running"
    /\ toolchains /= <<>>
    /\ current_toolchain.pc <= Len(imports[current_toolchain.path])

\* The import statement of the current document got `result`.
Advance(tcs) ==
    [tcs EXCEPT ![Len(tcs)].pc = @ + 1]

Log(by, source, result) ==
    Append(importLog, [by |-> by, source |-> source, result |-> result])

\* ZSImporter.import_file, path not found: error, None.
ImportFileNotFound ==
    /\ AtImport
    /\ resolve(CurrentSource) = None
    /\ messages' = error("Could not find file")
    /\ importLog' = Log(current_toolchain.path, CurrentSource, Absent)
    /\ toolchains' = Advance(toolchains)
    /\ UNCHANGED <<imports, runs, nextObject, status>>
    /\ UNCHANGED notImport

\* ZSImporter.import_file, the current toolchain already holds a document
\* context for the path: error, None.
ImportFileAlreadyImported ==
    /\ AtImport
    /\ resolve(CurrentSource) /= None
    /\ get_document_context(current_toolchain, resolve(CurrentSource)) /= None
    /\ messages' = error("was already imported")
    /\ importLog' = Log(current_toolchain.path, CurrentSource, Absent)
    /\ toolchains' = Advance(toolchains)
    /\ UNCHANGED <<imports, runs, nextObject, status>>
    /\ UNCHANGED notImport

\* ZSImporter.import_file, otherwise: compiler.import_document(path).
ImportFileDocument ==
    /\ AtImport
    /\ resolve(CurrentSource) /= None
    /\ get_document_context(current_toolchain, resolve(CurrentSource)) = None
    /\ Len(toolchains) < MaxImportDepth
    /\ import_document(resolve(CurrentSource))
    /\ UNCHANGED <<imports, importLog, messages, nextObject, status>>
    /\ UNCHANGED notImport

\* The same call when the interpreter's stack is exhausted: RecursionError
\* unwinds every import_document in progress (zs_main re-raises it).
ImportFileRecursionError ==
    /\ AtImport
    /\ resolve(CurrentSource) /= None
    /\ get_document_context(current_toolchain, resolve(CurrentSource)) = None
    /\ Len(toolchains) >= MaxImportDepth
    /\ toolchains' = <<>>
    /\ status' = "crashed"
    /\ UNCHANGED <<imports, runs, importLog, messages, nextObject>>
    /\ UNCHANGED notImport

\* execute_document returns: the toolchain is restored and import_file wraps
\* the document in a new ZSImportResult.
ImportDocumentReturn ==
    /\ status = "running"
    /\ toolchains /= <<>>
    /\ current_toolchain.pc > Len(imports[current_toolchain.path])
    /\ LET rest == SubSeq(toolchains, 1, Len(toolchains) - 1)
       IN  IF rest = <<>>
           THEN /\ toolchains' = rest
                /\ status' = "done"
                /\ UNCHANGED <<importLog, nextObject>>
           ELSE /\ toolchains' = Advance(rest)
                /\ importLog' = Log(rest[Len(rest)].path, current_toolchain.path, Some(nextObject))
                /\ nextObject' = nextObject + 1
                /\ UNCHANGED status
    /\ UNCHANGED <<imports, runs, messages>>
    /\ UNCHANGED notImport

ImportNext ==
    \/ \E p \in Paths : Main(p)
    \/ ImportFileNotFound
    \/ ImportFileAlreadyImported
    \/ ImportFileDocument
    \/ ImportFileRecursionError
    \/ ImportDocumentReturn

(***************************************************************************)
(* 2. THE PIPELINE: Toolchain.execute_document                             *)
(***************************************************************************)

MaxRequests == 3      \* execute_document calls in one run

\* The stages, in pipeline order, and the DocumentContext field of each:
\* tokens, nodes, resolved_nodes, build_order, objects.
Stages == <<"Tokens", "AST", "ResolvedAST", "BuildOrder", "MiniZObjects">>
StageSet == {Stages[i] : i \in DOMAIN Stages}
StageIndex(s) == CHOOSE i \in DOMAIN Stages : Stages[i] = s

\* ToolchainResult: the stages, BuiltObjects (which no case of the match
\* handles) and DocumentContext, the default.
ToolchainResult == StageSet \cup {"BuiltObjects", "DocumentContext"}

\* The stages that report through State.error and go on: the tokenizer, the
\* parser and the registry pass of the resolver.
ReportingStages == {"Tokens", "AST", "ResolvedAST"}

\* DocumentContext.__init__: every stage field is None.
DocumentContext == [s \in StageSet |-> Absent]

\* No execute_document call has been made yet.
NoRequest == [path |-> None, result |-> None, value |-> Absent, raised |-> FALSE]

PipelineInit ==
    /\ defects \in [Paths -> {{}} \cup {{s} : s \in ReportingStages}]
    /\ documents = <<>>
    /\ computed = [p \in Paths |-> [s \in StageSet |-> 0]]
    /\ stageMessages = <<>>
    /\ lastRequest = NoRequest
    /\ requestCount = 0

\* CompilationContext.create_document_context: a new DocumentContext,
\* registered under the path (enable_caching is left at True).
create_document_context(docs, p) ==
    [q \in DOMAIN docs \cup {p} |-> IF q = p THEN DocumentContext ELSE docs[q]]

\* A stage guard that forgets the memo.
NeverCached(doc, stage) == TRUE

\* The test that guards every stage of execute_document: the field is None.
NotCached(doc, stage) == doc[stage] = Absent

\* A stage runs: its field is set, and State.error is called when the text of
\* the document has a defect this stage reports.  The value stored is the
\* number of the computation that produced it.
RunStage(st, p, stage) ==
    [docs |-> [st.docs EXCEPT ![p][stage] = Some(st.count[p][stage] + 1)],
     count |-> [st.count EXCEPT ![p][stage] = @ + 1],
     msgs |-> IF stage \in defects[p] THEN Append(st.msgs, <<p, stage>>) ELSE st.msgs]

RECURSIVE Execute(_, _, _)
\* The match statement of execute_document, with its recursive calls.
Execute(st, p, result) ==
    CASE result = "Tokens" ->
            IF NotCached(st.docs[p], "Tokens") THEN RunStage(st, p, "Tokens") ELSE st
      [] result = "AST" ->
            IF NotCached(st.docs[p], "AST")
            THEN RunStage(Execute(st, p, "Tokens"), p, "AST") ELSE st
      [] result = "ResolvedAST" ->
            IF NotCached(st.docs[p], "ResolvedAST")
            THEN RunStage(Execute(st, p, "AST"), p, "ResolvedAST") ELSE st
      [] result = "BuildOrder" ->
            IF NotCached(st.docs[p], "BuildOrder")
            THEN RunStage(Execute(st, p, "ResolvedAST"), p, "BuildOrder") ELSE st
      [] result = "MiniZObjects" ->
            IF NotCached(st.docs[p], "MiniZObjects")
            THEN RunStage(Execute(Execute(st, p, "BuildOrder"), p, "ResolvedAST"),
                          p, "MiniZObjects")
            ELSE st
      [] result = "DocumentContext" -> Execute(st, p, "MiniZObjects")
      [] OTHER -> st      \* case _: raise ValueError

\* What execute_document returns for `result`.
Returned(st, p, result) ==
    CASE result \in StageSet -> st.docs[p][result]
      [] result = "DocumentContext" -> Some(p)
      [] OTHER -> Absent

\* Only the results the match statement has a case for return.
Raises(result) == result \notin StageSet \cup {"DocumentContext"}

\* Toolchain.execute_document(path, result): the document context is looked
\* up, or created and registered, and the requested stage is produced.
execute_document(p, result) ==
    /\ requestCount < MaxRequests
    /\ LET found == IF p \notin DOMAIN documents
                    THEN create_document_context(documents, p)
                    ELSE documents
           st == Execute([docs |-> found, count |-> computed, msgs |-> stageMessages],
                         p, result)
       IN  /\ documents' = st.docs
           /\ computed' = st.count
           /\ stageMessages' = st.msgs
           /\ lastRequest' = [path |-> p, result |-> result,
                              value |-> Returned(st, p, result),
                              raised |-> Raises(result)]
    /\ requestCount' = requestCount + 1
    /\ UNCHANGED defects
    /\ UNCHANGED notPipeline

PipelineNext == \E p \in Paths, result \in ToolchainResult : execute_document(p, result)

(***************************************************************************)
(* 3. THE OBJECTS STAGE: declare, define, require_definition               *)
(*                                                                         *)
(* One document with a class C and two functions.  A function has a name   *)
(* (functions of one name share an overload group, which the resolver      *)
(* injects), a return type expression, which its define stage evaluates    *)
(* at compile time, and a body, which refers to overload groups (calls).   *)
(***************************************************************************)
MaxDefineDepth == 6     \* the interpreter's recursion limit, in define stages

FunctionSeq == <<"f1", "f2">>
Functions == {"f1", "f2"}
Names == {"x", "y"}

Class == [kind |-> "Class", id |-> "C"]
Fn(f) == [kind |-> "Function", id |-> f]
Body(f) == [kind |-> "FunctionBody", id |-> f]
Group(n) == [kind |-> "OverloadGroup", id |-> n]
NoNode == [kind |-> None, id |-> None]
Nodes == {Class} \cup {Fn(f) : f \in Functions} \cup {Body(f) : f \in Functions}
            \cup {Group(n) : n \in Names}

\* A return type expression: none, the class, or a call of a group.
NoExpr == NoNode
Exprs(names) == {NoExpr, Class} \cup {Group(n) : n \in names}

\* The groups the registry created, in the order it injected them.
GroupNames(a) == {a.fnName[f] : f \in Functions}
RECURSIVE Dedup(_)
Dedup(s) ==
    IF s = <<>> THEN <<>>
    ELSE LET rest == Dedup(SubSeq(s, 1, Len(s) - 1))
             last == s[Len(s)]
         IN  IF \E i \in DOMAIN rest : rest[i] = last THEN rest ELSE Append(rest, last)
injected_nodes(a) == Dedup([i \in DOMAIN FunctionSeq |-> Group(a.fnName[FunctionSeq[i]])])

\* ResolvedOverloadGroup.overloads, in declaration order.
IsOverloadOf(a, n, f) == a.fnName[f] = n
overloads(a, n) ==
    LET s == SelectSeq(FunctionSeq, LAMBDA f : IsOverloadOf(a, n, f))
    IN  [i \in DOMAIN s |-> Fn(s[i])]

\* The top-level nodes of the resolved document, in source order.
resolved_nodes == <<Class, Fn("f1"), Fn("f2")>>

SetToSeq(S) == SelectSeq(<<"x", "y">>, LAMBDA n : n \in S)

(***************************************************************************)
(* The build order of the document: DependencyFinderDispatcher.find on     *)
(* every flattened node with the runtime finder, then order_dependencies.  *)
(* A finder state is the graph built so far, the compile-time finder's     *)
(* _visited set, and whether the interpreter's stack overflowed.           *)
(***************************************************************************)
MaxFindDepth == 6       \* the interpreter's recursion limit, in nested finds

Range(s) == {s[i] : i \in DOMAIN s}

FinderInit == [visited |-> {}, nodes |-> {}, edges |-> {}, overflow |-> FALSE]

\* DependencyGraph.add(dependant, *dependencies).
graph_add(st, dependant, deps) ==
    [st EXCEPT !.nodes = @ \cup {dependant} \cup Range(deps),
               !.edges = @ \cup {<<dependant, deps[i]>> : i \in DOMAIN deps}]

\* What a find returns: the finder state, and a list of nodes or None.
Found(st, deps) == [st |-> st, deps |-> deps, none |-> FALSE]
FoundNone(st) == [st |-> st, deps |-> <<>>, none |-> TRUE]

\* ASTFlattener.flatten_tree over the top-level nodes.
flatten_tree == <<Class, Fn("f1"), Body("f1"), Fn("f2"), Body("f2")>>

RECURSIVE RuntimeFind(_, _, _, _, _)
RECURSIVE CompileTimeFind(_, _, _, _)
RECURSIVE DispatcherFind(_, _, _, _, _)
RECURSIVE FindEach(_, _, _, _, _, _)
RECURSIVE CodeFindOverloads(_, _, _, _, _, _)
RECURSIVE CodeFindCalls(_, _, _, _, _, _)
RECURSIVE TypingFind(_, _, _, _)

\* DependencyFinderDispatcher.find(node) under the current finder cur.
DispatcherFind(a, st, node, cur, d) ==
    IF st.overflow THEN FoundNone(st)
    ELSE IF d > MaxFindDepth THEN FoundNone([st EXCEPT !.overflow = TRUE])
    ELSE IF cur = "runtime" THEN FoundNone(RuntimeFind(a, st, node, cur, d + 1))
    ELSE CompileTimeFind(a, st, node, d + 1)

\* DependencyFinder.add: graph.add, then find every dependency.
FindEach(a, st, deps, i, cur, d) ==
    IF i > Len(deps) THEN st
    ELSE FindEach(a, DispatcherFind(a, st, deps[i], cur, d).st, deps, i + 1, cur, d)

FinderAdd(a, st, dependant, deps, cur, d) ==
    FindEach(a, graph_add(st, dependant, deps), deps, 1, cur, d)

\* CodeDependencyFinder on a ResolvedOverloadGroup: the overloads from the
\* i-th on.  A function is found with the current finder; None means [node].
CodeFindOverloads(a, st, n, i, cur, d) ==
    IF i > Len(overloads(a, n)) THEN Found(st, <<>>)
    ELSE LET f == overloads(a, n)[i]
             r == DispatcherFind(a, st, f, cur, d)
             first == IF r.none THEN <<f>> ELSE r.deps
             rest == CodeFindOverloads(a, r.st, n, i + 1, cur, d)
         IN  Found(rest.st, first \o rest.deps)

\* The calls of a body, one expression statement each, from the i-th on.
CodeFindCalls(a, st, groups, i, cur, d) ==
    IF i > Len(groups) THEN Found(st, <<>>)
    ELSE LET r == CodeFindOverloads(a, st, groups[i], 1, cur, d)
             rest == CodeFindCalls(a, r.st, groups, i + 1, cur, d)
         IN  Found(rest.st, r.deps \o rest.deps)

\* TypingDependencyFinder._find_dependencies: a directly referenced class is
\* found with the runtime finder, anything else with the compile-time one.
TypingFind(a, st, expr, d) ==
    IF expr.kind = "Class"
    THEN Found(DispatcherFind(a, st, expr, "runtime", d).st, <<expr>>)
    ELSE CodeFindOverloads(a, st, expr.id, 1, "compile_time", d)

\* RuntimeDependencyFinder._find_dependencies; it returns None.
RuntimeFind(a, st, node, cur, d) ==
    CASE node.kind = "Class" -> graph_add(st, node, <<>>)
      [] node.kind = "Function" ->
            LET st0 == graph_add(st, node, <<>>)
                t == TypingFind(a, st0, a.retType[node.id], d)
            IN  IF a.retType[node.id] = NoExpr THEN st0
                ELSE FinderAdd(a, t.st, node, t.deps, cur, d)
      [] node.kind = "FunctionBody" ->
            LET r == CodeFindCalls(a, st, SetToSeq(a.bodyRefs[node.id]), 1, cur, d)
            IN  FinderAdd(a, r.st, node, r.deps, cur, d)

\* CompileTimeDependencyFinder.find_dependencies: None for a node visited
\* before.  A function is its body: the runtime finder on the owner, then
\* the compile-time finder on every instruction.
CompileTimeFind(a, st, node, d) ==
    IF node \in st.visited THEN FoundNone(st)
    ELSE IF node.kind = "Class"
    THEN FoundNone(RuntimeFind(a, [st EXCEPT !.visited = @ \cup {node}], node, "compile_time", d))
    ELSE LET st0 == [st EXCEPT !.visited = @ \cup {node, Body(node.id)}]
             st1 == RuntimeFind(a, st0, node, "compile_time", d)
         IN  CodeFindCalls(a, st1, SetToSeq(a.bodyRefs[node.id]), 1, "compile_time", d)

\* Toolchain: for node in nodes: dependency_finder.find(node).
FinderRun(a) == FindEach(a, FinderInit, flatten_tree, 1, "runtime", 0)

\* order_dependencies: the nodes of the graph, every node after the nodes it
\* depends on, nodes on a cycle in one equivalence class in any order.
Reaches(edges, x, y) ==
    LET step(S) == S \cup {e[2] : e \in {e \in edges : e[1] \in S}}
    IN  y \in step(step(step(step(step({e[2] : e \in {e \in edges : e[1] = x}})))))

order_dependencies(g) ==
    LET first == {e \in g.edges : e[1] /= e[2] /\ ~Reaches(g.edges, e[2], e[1])}
        orders == {s \in [1..Cardinality(g.nodes) -> g.nodes] :
                        \A i, j \in DOMAIN s : i /= j => s[i] /= s[j]}
    IN  {s \in orders :
            \A e \in first : \E i, j \in DOMAIN s : i < j /\ s[i] = e[2] /\ s[j] = e[1]}

Asts ==
    { a \in [fnName : [Functions -> Names], retType : [Functions -> Exprs(Names)],
             bodyRefs : [Functions -> SUBSET Names]] :
        /\ a.fnName["f1"] = "x"
        /\ \A f \in Functions :
            /\ a.retType[f].kind = "OverloadGroup" => a.retType[f].id \in GroupNames(a)
            /\ a.bodyRefs[f] \subseteq GroupNames(a) }

\* The documents whose build order stage returns.
OrderedAsts == {a \in Asts : ~FinderRun(a).overflow}

\* An allocated object.  writes counts the assignments to its fields.
Object(node) == [node |-> node, writes |-> 0, overloads |-> <<>>]

ObjectsInit ==
    /\ ast \in OrderedAsts
    /\ build_order \in order_dependencies(FinderRun(ast))
    /\ cache = [n \in Nodes |-> Absent]
    /\ heap = <<>>
    /\ built = {}
    /\ defineStack = <<>>
    /\ todo = <<>>
    /\ cursor = 1
    /\ phase = "declare"
    /\ events = <<>>

Event(ev, node, by) == [ev |-> ev, node |-> node, by |-> by]

\* The steps of one define stage (dispatcher.compile(node, item)).
\*   write: assign a field of item;   load: LoadObject of a cached object;
\*   mark: mark_defined(node);        group: compile a group reference;
\*   require: require_definition(target) and append it to item.overloads.
Step(op, target) == [op |-> op, target |-> target]

\* A define stage of a function that compiles the calls of its body too.
SignatureAndBodyExprs(a, f) ==
    (IF a.retType[f] = NoExpr THEN <<>> ELSE <<a.retType[f]>>)
        \o [i \in DOMAIN SetToSeq(a.bodyRefs[f]) |-> Group(SetToSeq(a.bodyRefs[f])[i])]

\* What the define stage of a function compiles: its return type.
SignatureExprs(a, f) == IF a.retType[f] = NoExpr THEN <<>> ELSE <<a.retType[f]>>

ExprSteps(exprs) ==
    [i \in DOMAIN exprs |->
        IF exprs[i].kind = "OverloadGroup" THEN Step("group", exprs[i])
        ELSE Step("load", exprs[i])]

compile(a, node) ==
    CASE node.kind = "Class" -> <<>>
      [] node.kind = "Function" ->
            ExprSteps(SignatureExprs(a, node.id)) \o <<Step("write", NoNode)>>
      [] node.kind = "FunctionBody" ->
            <<Step("mark", node)>>
                \o ExprSteps([i \in DOMAIN SetToSeq(a.bodyRefs[node.id]) |->
                                Group(SetToSeq(a.bodyRefs[node.id])[i])])
      [] node.kind = "OverloadGroup" ->
            [i \in DOMAIN overloads(a, node.id) |-> Step("require", overloads(a, node.id)[i])]

Frame(node, item, via) == [node |-> node, item |-> item, pc |-> 1, via |-> via]
Top == defineStack[Len(defineStack)]
TopSteps == compile(ast, Top.node)
Defining == phase = "define" /\ defineStack /= <<>>
AtStep(op) == Defining /\ Top.pc <= Len(TopSteps) /\ TopSteps[Top.pc].op = op
Target == TopSteps[Top.pc].target
AdvanceTop(stack) == [stack EXCEPT ![Len(stack)].pc = @ + 1]
Emit(evs) == events' = events \o evs

\* NodeCompiler.declare(node) for one top-level node of the document; the
\* Function constructor brings its FunctionBody, which construct caches too.
\* After the last node the toolchain pairs the build order with the cache.
DeclareTopLevel ==
    /\ phase = "declare"
    /\ LET node == resolved_nodes[cursor]
           id == Len(heap) + 1
           cache1 == IF node.kind = "Function"
                     THEN [cache EXCEPT ![node] = Some(id), ![Body(node.id)] = Some(id + 1)]
                     ELSE [cache EXCEPT ![node] = Some(id)]
       IN  /\ heap' = IF node.kind = "Function"
                      THEN heap \o <<Object(node), Object(Body(node.id))>>
                      ELSE Append(heap, Object(node))
           /\ cache' = cache1
           /\ Emit(<<Event("construct", node, NoNode)>>)
           /\ IF cursor < Len(resolved_nodes)
              THEN /\ cursor' = cursor + 1
                   /\ UNCHANGED <<phase, todo>>
              ELSE /\ cursor' = 1
                   /\ phase' = "inject"
                   /\ todo' = [i \in DOMAIN build_order |->
                                [node |-> build_order[i], item |-> cache1[build_order[i]][1]]]
    /\ UNCHANGED <<ast, build_order, built, defineStack>>
    /\ UNCHANGED notObjects

\* Toolchain: for node in injected_nodes: nodes.append((node, declare(node))).
DeclareInjected ==
    /\ phase = "inject"
    /\ LET node == injected_nodes(ast)[cursor]
           id == Len(heap) + 1
       IN  /\ heap' = Append(heap, Object(node))
           /\ cache' = [cache EXCEPT ![node] = Some(id)]
           /\ todo' = Append(todo, [node |-> node, item |-> id])
           /\ Emit(<<Event("construct", node, NoNode)>>)
           /\ IF cursor < Len(injected_nodes(ast))
              THEN cursor' = cursor + 1 /\ UNCHANGED phase
              ELSE cursor' = 1 /\ phase' = "define"
    /\ UNCHANGED <<ast, build_order, built, defineStack>>
    /\ UNCHANGED notObjects

\* NodeCompiler.define(pairs): dispatcher.compile(*p) for the next pair.
DefineLoop ==
    /\ phase = "define" /\ defineStack = <<>> /\ cursor <= Len(todo)
    /\ defineStack' = <<Frame(todo[cursor].node, todo[cursor].item, "loop")>>
    /\ Emit(<<Event("defineStart", todo[cursor].node, NoNode)>>)
    /\ UNCHANGED <<ast, build_order, cache, heap, built, todo, cursor, phase>>
    /\ UNCHANGED notObjects

DefineFinished ==
    /\ phase = "define" /\ defineStack = <<>> /\ cursor > Len(todo)
    /\ phase' = "done"
    /\ UNCHANGED <<ast, build_order, cache, heap, built, defineStack, todo, cursor, events>>
    /\ UNCHANGED notObjects

\* item.signature.return_type = ...
Write ==
    /\ AtStep("write")
    /\ heap' = [heap EXCEPT ![Top.item].writes = @ + 1]
    /\ defineStack' = AdvanceTop(defineStack)
    /\ UNCHANGED <<ast, build_order, cache, built, todo, cursor, phase, events>>
    /\ UNCHANGED notObjects

\* CodeCompiler._compile(ResolvedClass): LoadObject(cache(node)).
Load ==
    /\ AtStep("load")
    /\ Emit(<<Event("evaluate", Target, Top.node)>>)
    /\ defineStack' = AdvanceTop(defineStack)
    /\ UNCHANGED <<ast, build_order, cache, heap, built, todo, cursor, phase>>
    /\ UNCHANGED notObjects

\* FunctionCompiler.compile(ResolvedFunctionBody): mark_defined(node) first.
MarkDefined ==
    /\ AtStep("mark")
    /\ built' = built \cup {Target}
    /\ defineStack' = AdvanceTop(defineStack)
    /\ UNCHANGED <<ast, build_order, cache, heap, todo, cursor, phase, events>>
    /\ UNCHANGED notObjects

\* CodeCompiler._compile(ResolvedOverloadGroup):
\*     LoadObject(compiler.define((node, compiler.declare(node))))
CompileGroupReference ==
    /\ AtStep("group")
    /\ Len(defineStack) < MaxDefineDepth
    /\ LET id == Len(heap) + 1
       IN  /\ heap' = Append(heap, Object(Target))
           /\ cache' = [cache EXCEPT ![Target] = Some(id)]
           /\ defineStack' = Append(defineStack, Frame(Target, id, "code"))
           /\ Emit(<<Event(IF Top.node.kind = "Function" THEN "evaluate" ELSE "refer",
                           Target, Top.node),
                     Event("construct", Target, Top.node),
                     Event("defineStart", Target, Top.node)>>)
    /\ UNCHANGED <<ast, build_order, built, todo, cursor, phase>>
    /\ UNCHANGED notObjects

\* require_definition(node) with node in _built: return cache(node).
RequireDefinitionCached ==
    /\ AtStep("require")
    /\ Target \in built
    /\ heap' = [heap EXCEPT ![Top.item].overloads = Append(@, cache[Target][1])]
    /\ defineStack' = AdvanceTop(defineStack)
    /\ UNCHANGED <<ast, build_order, cache, built, todo, cursor, phase, events>>
    /\ UNCHANGED notObjects

\* require_definition(node) otherwise: dispatcher.compile(node, cache(node)).
RequireDefinitionCompile ==
    /\ AtStep("require")
    /\ Target \notin built
    /\ Len(defineStack) < MaxDefineDepth
    /\ defineStack' = Append(defineStack, Frame(Target, cache[Target][1], "require"))
    /\ Emit(<<Event("defineStart", Target, Top.node)>>)
    /\ UNCHANGED <<ast, build_order, cache, heap, built, todo, cursor, phase>>
    /\ UNCHANGED notObjects

\* The define stage on top of the stack has run all its steps.
DefineReturn ==
    /\ Defining /\ Top.pc > Len(TopSteps)
    /\ Emit(<<Event("defineEnd", Top.node, NoNode)>>)
    /\ LET rest == SubSeq(defineStack, 1, Len(defineStack) - 1)
       IN  defineStack' = IF Top.via = "loop" THEN rest ELSE AdvanceTop(rest)
    /\ cursor' = IF Top.via = "loop" THEN cursor + 1 ELSE cursor
    /\ built' = IF Top.via = "require" THEN built \cup {Top.node} ELSE built
    /\ heap' = IF Top.via = "require"
               THEN [heap EXCEPT ![defineStack[Len(defineStack) - 1].item].overloads =
                                        Append(@, Top.item)]
               ELSE heap
    /\ UNCHANGED <<ast, build_order, cache, todo, phase>>
    /\ UNCHANGED notObjects

\* One define stage more than the interpreter's stack holds.
DefineRecursionError ==
    /\ \/ AtStep("group")
       \/ AtStep("require") /\ Target \notin built
    /\ Len(defineStack) >= MaxDefineDepth
    /\ phase' = "crashed"
    /\ defineStack' = <<>>
    /\ UNCHANGED <<ast, build_order, cache, heap, built, todo, cursor, events>>
    /\ UNCHANGED notObjects

ObjectsNext ==
    \/ DeclareTopLevel
    \/ DeclareInjected
    \/ DefineLoop
    \/ DefineFinished
    \/ Write
    \/ Load
    \/ MarkDefined
    \/ CompileGroupReference
    \/ RequireDefinitionCached
    \/ RequireDefinitionCompile
    \/ DefineReturn
    \/ DefineRecursionError

(***************************************************************************)
(* 4. THE DEPENDENCY FINDER ON CLASSES                                     *)
(*                                                                         *)
(* A document of classes, each with a list of bases that name classes of   *)
(* the document.  The toolchain calls the runtime finder on every class;   *)
(* the finder on a class finds every base through the typing finder, which *)
(* hands a directly referenced class back to the runtime finder.           *)
(***************************************************************************)
MaxFindStack == 5       \* the interpreter's recursion limit, in nested finds

Classes == {"A", "B"}
ClassSeq == <<"A", "B">>
BaseLists == {<<>>, <<"A">>, <<"B">>, <<"A", "B">>, <<"B", "A">>}

FinderIdle ==
    /\ bases = <<>>
    /\ findStack = <<>>
    /\ graph = [nodes |-> {}, edges |-> {}]
    /\ findCursor = 1
    /\ finderStatus = "idle"
    /\ finderMessages = <<>>

ClassFinderInit ==
    /\ bases \in [Classes -> BaseLists]
    /\ findStack = <<>>
    /\ graph = [nodes |-> {}, edges |-> {}]
    /\ findCursor = 1
    /\ finderStatus = "finding"
    /\ finderMessages = <<>>

\* One RuntimeDependencyFinder._find_dependencies(ResolvedClass) in progress:
\* at "bases" it maps dispatcher.find over node.bases, at "add" it is inside
\* DependencyFinder.add, finding every dependency again.
FindFrame(c) == [node |-> c, at |-> "bases", i |-> 1]
FindTop == findStack[Len(findStack)]
Finding == finderStatus = "finding" /\ findStack /= <<>>
NextBase == Finding /\ FindTop.i <= Len(bases[FindTop.node])

\* Toolchain: for node in nodes: dependency_finder.find(node).
FindClass ==
    /\ finderStatus = "finding" /\ findStack = <<>> /\ findCursor <= Len(ClassSeq)
    /\ findStack' = <<FindFrame(ClassSeq[findCursor])>>
    /\ UNCHANGED <<bases, graph, findCursor, finderStatus, finderMessages>>
    /\ UNCHANGED notFinder

\* dispatcher.find(base) or dispatcher.find(dependency): typing finder, code
\* finder, and the runtime finder on the class again.
FindBase ==
    /\ NextBase
    /\ Len(findStack) < MaxFindStack
    /\ findStack' = Append(findStack, FindFrame(bases[FindTop.node][FindTop.i]))
    /\ UNCHANGED <<bases, graph, findCursor, finderStatus, finderMessages>>
    /\ UNCHANGED notFinder

\* self.graph.add(dependant, *dependencies), once every base is found.
GraphAdd ==
    /\ Finding /\ FindTop.at = "bases" /\ FindTop.i > Len(bases[FindTop.node])
    /\ graph' = [nodes |-> graph.nodes \cup {FindTop.node} \cup Range(bases[FindTop.node]),
                 edges |-> graph.edges \cup
                            {<<FindTop.node, b>> : b \in Range(bases[FindTop.node])}]
    /\ findStack' = [findStack EXCEPT ![Len(findStack)] = [@ EXCEPT !.at = "add", !.i = 1]]
    /\ UNCHANGED <<bases, findCursor, finderStatus, finderMessages>>
    /\ UNCHANGED notFinder

\* The find of a class returns None to its caller.
FindReturn ==
    /\ Finding /\ FindTop.at = "add" /\ FindTop.i > Len(bases[FindTop.node])
    /\ LET rest == SubSeq(findStack, 1, Len(findStack) - 1)
       IN  IF rest = <<>>
           THEN findStack' = rest /\ findCursor' = findCursor + 1
           ELSE /\ findStack' = [rest EXCEPT ![Len(rest)].i = @ + 1]
                /\ UNCHANGED findCursor
    /\ UNCHANGED <<bases, graph, finderStatus, finderMessages>>
    /\ UNCHANGED notFinder

\* One find more than the interpreter's stack holds: RecursionError leaves
\* execute_document; nothing is added to the State.
FindRecursionError ==
    /\ NextBase
    /\ Len(findStack) >= MaxFindStack
    /\ finderStatus' = "overflow"
    /\ findStack' = <<>>
    /\ UNCHANGED <<bases, graph, findCursor, finderMessages>>
    /\ UNCHANGED notFinder

\* document.build_order = graph.order_dependencies(self.state): a cycle that
\* cannot be broken is reported as an error.
OnCycle(edges) == {c \in Classes : Reaches(edges, c, c)}
OrderDependencies ==
    /\ finderStatus = "finding" /\ findStack = <<>> /\ findCursor > Len(ClassSeq)
    /\ finderStatus' = "ordered"
    /\ finderMessages' = IF OnCycle(graph.edges) = {} THEN finderMessages
                         ELSE Append(finderMessages, OnCycle(graph.edges))
    /\ UNCHANGED <<bases, findStack, graph, findCursor>>
    /\ UNCHANGED notFinder

ClassFinderNext ==
    \/ FindClass
    \/ FindBase
    \/ GraphAdd
    \/ FindReturn
    \/ FindRecursionError
    \/ OrderDependencies

(***************************************************************************)
(* 5. OVERLOAD MATCHING                                                    *)
(*                                                                         *)
(* Function.match as a function of a signature, the argument types of a    *)
(* call and the caller's type_mappings; OverloadGroup.match over the       *)
(* overloads of a group; the curvy_call of an overload group.              *)
(***************************************************************************)
ArgTypes == {"Int32", "String"}
GenericParameters == {"T"}

\* miniz.type_system: identity, and assignability with Any on top.
are_identical(source, target) == source = target
assignable_to(source, target) == source = target \/ target = "Any"

Parameter(name, type, has_default) ==
    [name |-> name, parameter_type |-> type, has_default_value |-> has_default]
Signature(positional, named, variadic_positional, variadic_named) ==
    [positional_parameters |-> positional, named_parameters |-> named,
     variadic_positional_parameter |-> variadic_positional,
     variadic_named_parameter |-> variadic_named]

\* An Argument of a match result: the call's argument, or LoadObject(default).
Supplied(type) == [from |-> "argument", type |-> type]
Default(param) == [from |-> "default", type |-> param.parameter_type]

\* check_assignability(source, target): a generic parameter is bound to the
\* first type matched against it.  The result is the verdict and the mappings.
check_assignability_rebinding(strict, mappings, source, target) ==
    LET compare_type(s, t) == IF strict THEN are_identical(s, t) ELSE assignable_to(s, t)
        type == target.parameter_type
    IN  IF type \in GenericParameters
        THEN [ok |-> compare_type(source, source),
              mappings |-> [g \in DOMAIN mappings \cup {type} |->
                               IF g = type THEN source ELSE mappings[g]]]
        ELSE [ok |-> compare_type(source, type), mappings |-> mappings]
check_assignability(strict, mappings, source, target) ==
    LET compare_type(s, t) == IF strict THEN are_identical(s, t) ELSE assignable_to(s, t)
        type == target.parameter_type
    IN  IF type \in GenericParameters
        THEN IF type \in DOMAIN mappings
             THEN [ok |-> compare_type(source, mappings[type]), mappings |-> mappings]
             ELSE [ok |-> compare_type(source, source),
                   mappings |-> [g \in DOMAIN mappings \cup {type} |->
                                    IF g = type THEN source ELSE mappings[g]]]
        ELSE [ok |-> compare_type(source, type), mappings |-> mappings]

\* The state of one match call, and how it ends.
NoMatch(m) == [m EXCEPT !.outcome = "none"]
Raise(m, exception) == [m EXCEPT !.outcome = exception]
Running(m) == m.outcome = "running"
Checked(m, c) == [m EXCEPT !.mappings = c.mappings]

\* for arg, param in zip(positional_arguments, sig.positional_parameters)
RECURSIVE MatchPositional(_, _, _, _, _)
PositionalChecked(sig, args, strict, m, i, c) ==
    IF ~c.ok THEN NoMatch(Checked(m, c))
    ELSE MatchPositional(sig, args, strict,
            [m EXCEPT !.mappings = c.mappings, !.args_match = Append(@, Supplied(args[i]))],
            i + 1)
MatchPositional(sig, args, strict, m, i) ==
    IF i > Len(args) \/ i > Len(sig.positional_parameters) THEN m
    ELSE PositionalChecked(sig, args, strict, m, i,
            check_assignability(strict, m.mappings, args[i], sig.positional_parameters[i]))

\* The first argument of a loop over left-over positional arguments: the
\* loop returns None or raises in its first round.  A variadic parameter
\* that is None has no parameter_type.
VariadicChecked(m, c) ==
    IF ~c.ok THEN NoMatch(Checked(m, c)) ELSE Raise(Checked(m, c), "TypeError")
MatchVariadic(sig, args, strict, m, first) ==
    IF first > Len(args) THEN m
    ELSE IF sig.variadic_positional_parameter = Absent THEN Raise(m, "AttributeError")
    ELSE VariadicChecked(m, check_assignability(strict, m.mappings, args[first],
                                                sig.variadic_positional_parameter[1]))

\* for param in sig.positional_parameters[len(positional_arguments):]
RECURSIVE DefaultPositional(_, _, _)
DefaultPositional(sig, m, i) ==
    IF i > Len(sig.positional_parameters) THEN m
    ELSE IF ~sig.positional_parameters[i].has_default_value THEN NoMatch(m)
    ELSE DefaultPositional(sig,
            [m EXCEPT !.args_match = Append(@, Default(sig.positional_parameters[i]))], i + 1)

IndexOfName(params, name) ==
    IF \E k \in DOMAIN params : params[k].name = name
    THEN CHOOSE k \in DOMAIN params :
            params[k].name = name /\ \A j \in DOMAIN params : params[j].name = name => j <= k
    ELSE 0

Bind(kwargs_match, k, argument) ==
    [j \in DOMAIN kwargs_match \cup {k} |-> IF j = k THEN argument ELSE kwargs_match[j]]

\* for name, arg in named_arguments: a name of sig.named_parameters is bound
\* to its parameter, any other name goes to the variadic named parameter.
RECURSIVE MatchNamed(_, _, _, _, _)
NamedChecked(sig, named, strict, m, i, c) ==
    IF ~c.ok THEN NoMatch(Checked(m, c))
    ELSE MatchNamed(sig, named, strict, Checked(m, c), i + 1)
NamedAt(sig, named, strict, m, i, k) ==
    IF k = 0
    THEN IF sig.variadic_named_parameter = Absent THEN NoMatch(m)
         ELSE NamedChecked(sig, named, strict, m, i,
                check_assignability(strict, m.mappings, named[i][2],
                                    sig.variadic_named_parameter[1]))
    ELSE NamedChecked(sig, named, strict,
            [m EXCEPT !.kwargs_match = Bind(@, k, Supplied(named[i][2]))], i,
            check_assignability(strict, m.mappings, named[i][2], sig.named_parameters[k]))
MatchNamed(sig, named, strict, m, i) ==
    IF i > Len(named) THEN m
    ELSE NamedAt(sig, named, strict, m, i, IndexOfName(sig.named_parameters, named[i][1]))

\* for param in sig.named_parameters[len(named_arguments):]
RECURSIVE DefaultNamed(_, _, _)
DefaultNamed(sig, m, i) ==
    IF i > Len(sig.named_parameters) THEN m
    ELSE IF ~sig.named_parameters[i].has_default_value THEN NoMatch(m)
    ELSE DefaultNamed(sig,
            [m EXCEPT !.kwargs_match = Bind(@, i, Default(sig.named_parameters[i]))], i + 1)

\* The parts of the match after the zip over the positional parameters; a
\* part is skipped once None was returned or an exception raised.
AfterPositional(sig, args, strict, m) ==
    IF ~Running(m) THEN m
    ELSE IF Len(args) > Len(sig.positional_parameters)
    THEN MatchVariadic(sig, args, strict, m, Len(sig.positional_parameters) + 1)
    ELSE DefaultPositional(sig, m, Len(args) + 1)

NamedArguments(sig, named, strict, m) ==
    IF ~Running(m) THEN m ELSE MatchNamed(sig, named, strict, m, 1)

AfterNamed(sig, args, named, strict, m) ==
    IF ~Running(m) THEN m
    ELSE IF Len(named) > Len(sig.named_parameters)
    THEN MatchVariadic(sig, args, strict, m, Len(sig.named_parameters) + 1)
    ELSE DefaultNamed(sig, m, Len(named) + 1)

\* OverloadMatchResult: kwargs_match[param] for every named parameter.
MatchResult(sig, m) ==
    IF ~Running(m) THEN m
    ELSE IF \A k \in DOMAIN sig.named_parameters : k \in DOMAIN m.kwargs_match
    THEN [m EXCEPT !.outcome = "match"]
    ELSE Raise(m, "KeyError")

\* _FunctionIOverloaded.match.  The outcome is "match", "none" (None is
\* returned) or the exception raised; mappings is the caller's dictionary
\* as the call leaves it.
MatchStart(type_mappings) ==
    [outcome |-> "running", mappings |-> type_mappings,
     args_match |-> <<>>, kwargs_match |-> <<>>]
match(sig, positional_arguments, named_arguments, strict, type_mappings) ==
    IF \/ /\ Len(positional_arguments) > Len(sig.positional_parameters)
          /\ sig.variadic_positional_parameter = Absent
       \/ /\ Len(named_arguments) > Len(sig.named_parameters)
          /\ sig.variadic_named_parameter = Absent
    THEN NoMatch(MatchStart(type_mappings))
    ELSE MatchResult(sig,
            AfterNamed(sig, positional_arguments, named_arguments, strict,
                NamedArguments(sig, named_arguments, strict,
                    AfterPositional(sig, positional_arguments, strict,
                        MatchPositional(sig, positional_arguments, strict,
                                        MatchStart(type_mappings), 1)))))

\* The functions a document may declare under one name.
P(name, type) == Parameter(name, type, FALSE)
D(name, type) == Parameter(name, type, TRUE)
Pool ==
    [int   |-> Signature(<<P("x", "Int32")>>, <<>>, Absent, Absent),
     str   |-> Signature(<<P("x", "String")>>, <<>>, Absent, Absent),
     any   |-> Signature(<<P("x", "Any")>>, <<>>, Absent, Absent),
     opt   |-> Signature(<<P("x", "Int32"), D("y", "Int32")>>, <<>>, Absent, Absent),
     rest  |-> Signature(<<P("x", "Int32")>>, <<>>, Some(P("rest", "Int32")), Absent),
     kw    |-> Signature(<<P("x", "Int32")>>, <<D("b", "Int32")>>, Absent, Absent),
     kw2   |-> Signature(<<P("x", "Int32")>>, <<P("a", "Int32"), D("b", "Int32")>>,
                         Absent, Absent),
     gen   |-> Signature(<<P("x", "T"), P("y", "T")>>, <<>>, Absent, Absent)]
OverloadIds == DOMAIN Pool

MaxOverloads == 2       \* overloads declared in one group
MaxArgs == 2            \* positional arguments at the call site
MaxCalls == 2           \* calls compiled

Groups ==
    {s \in UNION {[1..n -> OverloadIds] : n \in 1..MaxOverloads} :
        \A i, j \in DOMAIN s : i /= j => s[i] /= s[j]}
ParentGroups == {<<>>, <<"any">>}
CallSites ==
    [args : UNION {[1..n -> ArgTypes] : n \in 1..MaxArgs},
     kwargs : {<<>>, <<<<"b", "Int32">>>>}]

\* OverloadGroup.match: the overloads that match, in declaration order; with
\* recursive set, an empty result is the parent's result.  An exception of
\* an overload's match leaves the loop.
Matched(raised, matches) == [raised |-> raised, matches |-> matches]
RECURSIVE MatchOverloads(_, _, _, _)
Prepend(id, outcome, rest) ==
    IF outcome = "match" /\ rest.raised = None
    THEN Matched(None, <<id>> \o rest.matches)
    ELSE rest
OverloadMatched(overloadIds, site, strict, i, outcome) ==
    IF outcome \notin {"match", "none"} THEN Matched(outcome, <<>>)
    ELSE Prepend(overloadIds[i], outcome, MatchOverloads(overloadIds, site, strict, i + 1))
MatchOverloads(overloadIds, site, strict, i) ==
    IF i > Len(overloadIds) THEN Matched(None, <<>>)
    ELSE OverloadMatched(overloadIds, site, strict, i,
            match(Pool[overloadIds[i]], site.args, site.kwargs, strict, <<>>).outcome)

OrParent(g, site, strict, recursive, own) ==
    IF own.raised = None /\ own.matches = <<>> /\ recursive /\ g.parent /= <<>>
    THEN MatchOverloads(g.parent, site, strict, 1)
    ELSE own
GroupMatch(g, site, strict, recursive) ==
    OrParent(g, site, strict, recursive, MatchOverloads(g.overloads, site, strict, 1))

\* The end of curvy_call: exactly one match, or an error.  The error message
\* maps a two-parameter lambda over kwargs.
Selected(site, matches, passes) ==
    IF matches.raised /= None
    THEN [result |-> matches.raised, callee |-> None, passes |-> passes]
    ELSE IF Len(matches.matches) /= 1
    THEN [result |-> IF site.kwargs /= <<>> THEN "TypeError" ELSE "OverloadMatchError",
          callee |-> None, passes |-> passes]
    ELSE [result |-> "call", callee |-> matches.matches[1], passes |-> passes]

AfterStrict(g, site, strict) ==
    IF strict.raised = None /\ strict.matches = <<>>
    THEN Selected(site, GroupMatch(g, site, FALSE, TRUE), 2)
    ELSE Selected(site, strict, 1)

\* __OverloadGroupICallable.curvy_call on an unbound group: the strict pass,
\* then the permissive pass if the strict pass matched nothing.
curvy_call(g, site) == AfterStrict(g, site, GroupMatch(g, site, TRUE, FALSE))

OverloadsIdle ==
    /\ group = [overloads |-> <<>>, parent |-> <<>>]
    /\ callSite = [args |-> <<>>, kwargs |-> <<>>]
    /\ callLog = <<>>
    /\ signature = Signature(<<>>, <<>>, Absent, Absent)
    /\ matchLog = <<>>

OverloadsInit ==
    /\ group \in [overloads : Groups, parent : ParentGroups]
    /\ callSite \in CallSites
    /\ callLog = <<>>
    /\ signature = Signature(<<>>, <<>>, Absent, Absent)
    /\ matchLog = <<>>

\* The call site is compiled against the group as it is declared now.
CurvyCall ==
    /\ Len(callLog) < MaxCalls
    /\ callLog' = Append(callLog, [overloads |-> group.overloads,
                                   result |-> curvy_call(group, callSite)])
    /\ UNCHANGED <<group, callSite, signature, matchLog>>
    /\ UNCHANGED notOverloads

\* The same functions declared in another order: two neighbours swapped.
Redeclare(i) ==
    /\ i < Len(group.overloads)
    /\ group' = [group EXCEPT !.overloads =
                    [@ EXCEPT ![i] = group.overloads[i + 1], ![i + 1] = group.overloads[i]]]
    /\ UNCHANGED <<callSite, callLog, signature, matchLog>>
    /\ UNCHANGED notOverloads

OverloadsNext ==
    \/ CurvyCall
    \/ \E i \in 1..MaxOverloads : Redeclare(i)

(***************************************************************************)
(* Function.match on its own: a function f(x: Int32, {named parameters})   *)
(* with at most two named parameters a and b, each with or without a       *)
(* default, asked to match a call f(1, name: value, ...).                  *)
(***************************************************************************)
ParameterNames == {"a", "b"}

NamedParameterLists ==
    {s \in UNION {[1..n -> [name : ParameterNames, parameter_type : {"Int32"},
                            has_default_value : BOOLEAN]] : n \in 0..2} :
        \A i, j \in DOMAIN s : i /= j => s[i].name /= s[j].name}

NamedArgumentLists ==
    {s \in UNION {[1..n -> ParameterNames \X ArgTypes] : n \in 0..2} :
        \A i, j \in DOMAIN s : i /= j => s[i][1] /= s[j][1]}

MatchInit ==
    /\ signature \in {Signature(<<P("x", "Int32")>>, named, Absent, Absent) :
                            named \in NamedParameterLists}
    /\ callSite \in [args : {<<"Int32">>}, kwargs : NamedArgumentLists]
    /\ matchLog = <<>>
    /\ group = [overloads |-> <<>>, parent |-> <<>>]
    /\ callLog = <<>>

\* function.match(args, kwargs, strict=strict) with no type_mappings given.
FunctionMatch(strict) ==
    /\ Len(matchLog) < MaxCalls
    /\ matchLog' = Append(matchLog,
            [strict |-> strict,
             result |-> match(signature, callSite.args, callSite.kwargs, strict, <<>>)])
    /\ UNCHANGED <<group, callSite, callLog, signature>>
    /\ UNCHANGED notOverloads

MatchNext == \E strict \in BOOLEAN : FunctionMatch(strict)


(***************************************************************************)
(* 6. SCOPES: Scope.lookup_name and the create_..._name methods            *)
(*                                                                         *)
(* A chain of scopes, innermost last.  An item is the number of the call   *)
(* that created it; 0 stands for the default object a lookup is given.     *)
(***************************************************************************)
MaxScopeDepth == 3      \* scopes in the chain
MaxScopeCalls == 2      \* calls made on the chain

ScopeNames == {"x", "y"}

ScopesIdle ==
    /\ scopes = <<>>
    /\ scopeLog = <<>>

ScopesInit ==
    /\ scopes = [i \in 1..MaxScopeDepth |-> <<>>]
    /\ scopeLog = <<>>

\* Scope.lookup_name(name, recursive_lookup=..., default=...) on scope i.
\* default is Absent for _SENTINEL.  The call on the parent passes
\* recursive_lookup and no default.
RECURSIVE lookup_name(_, _, _, _, _)
lookup_name(items, i, name, recursive_lookup, default) ==
    IF name \in DOMAIN items[i] THEN [outcome |-> "item", value |-> items[i][name]]
    ELSE IF recursive_lookup /\ i > 1
    THEN lookup_name(items, i - 1, name, recursive_lookup, Absent)
    ELSE IF default = Absent THEN [outcome |-> "NameNotFoundError", value |-> 0]
    ELSE [outcome |-> "default", value |-> default[1]]

\* Scope._assert_name_unused(name): the exception it raises, or None.
assert_name_unused(items, i, name) ==
    IF name \in DOMAIN items[i] THEN "ValueError" ELSE None

\* Scope.create_variable_name / create_readonly_name on scope i.
create_name(items, i, name, value) ==
    IF assert_name_unused(items, i, name) /= None THEN items
    ELSE [items EXCEPT ![i] = [n \in DOMAIN @ \cup {name} |-> IF n = name THEN value ELSE @[n]]]

\* One call on scope i, as the log keeps it.
ScopeCall(op, i, name, recursive, default, result, after) ==
    [op |-> op, scope |-> i, name |-> name, recursive |-> recursive,
     default |-> default, outcome |-> result.outcome, value |-> result.value,
     items |-> scopes, after |-> after]

CreateName(i, name) ==
    /\ Len(scopeLog) < MaxScopeCalls
    /\ scopes' = create_name(scopes, i, name, Len(scopeLog) + 1)
    /\ scopeLog' = Append(scopeLog,
            ScopeCall("create", i, name, FALSE, Absent,
                      [outcome |-> assert_name_unused(scopes, i, name),
                       value |-> Len(scopeLog) + 1],
                      create_name(scopes, i, name, Len(scopeLog) + 1)))
    /\ UNCHANGED notScopes

LookupName(i, name, recursive, default) ==
    /\ Len(scopeLog) < MaxScopeCalls
    /\ scopeLog' = Append(scopeLog,
            ScopeCall("lookup", i, name, recursive, default,
                      lookup_name(scopes, i, name, recursive, default), scopes))
    /\ UNCHANGED scopes
    /\ UNCHANGED notScopes

ScopesNext ==
    \E i \in 1..MaxScopeDepth, name \in ScopeNames :
        \/ CreateName(i, name)
        \/ \E recursive \in BOOLEAN, default \in {Absent, Some(0)} :
                LookupName(i, name, recursive, default)

(***************************************************************************)
(* 7. THE RESOLVER: registry pass and name-linker pass                     *)
(*                                                                         *)
(* A document is a list of top-level declarations: a var with an optional  *)
(* type, a class with at most one base, a function without parameters and  *)
(* with an optional return type.  A type or base is an identifier.  A      *)
(* class has items and a top-level function has a body: vars and functions *)
(* that have neither type nor body and are named a.  A declaration is      *)
(* named by its path:                                                      *)
(* <<k>> for the k-th top-level one, <<k, j>> for the j-th inside it.      *)
(* The scopes form a tree: scope 1 is the global scope, scope 2 the scope  *)
(* of the document (ResolverContext.__init__).                             *)
(***************************************************************************)
MaxTop == 2             \* top-level declarations of a document
MaxInner == 1           \* declarations inside a class or a function body

DeclNames == {"a", "b"}
Identifiers == {Absent, Some("a")}

Declaration(kind, name, ref, body, inner) ==
    [kind |-> kind, name |-> name, ref |-> ref, body |-> body, inner |-> inner]

InnerDeclarations ==
    {Declaration(kind, "a", Absent, FALSE, <<>>) : kind \in {"Var", "Function"}}

Declarations ==
    {Declaration("Var", name, ref, FALSE, <<>>) :
        name \in DeclNames, ref \in Identifiers}
    \cup {Declaration(kind, name, ref, TRUE, inner) :
            kind \in {"Class", "Function"}, name \in DeclNames,
            ref \in Identifiers, inner \in SeqsUpTo(InnerDeclarations, MaxInner)}

Value(kind, at) == [kind |-> kind, at |-> at]

NodeAt(document, at) ==
    IF Len(at) = 1 THEN document[at[1]] ELSE document[at[1]].inner[at[2]]

Put(f, k, v) == [x \in DOMAIN f \cup {k} |-> IF x = k THEN v ELSE f[x]]

NewProcessor ==
    [parent |-> <<0, 1>>, items |-> << <<>>, <<>> >>, current |-> 2,
     mapping |-> <<>>, overloads |-> <<>>, injected |-> <<>>,
     errors |-> <<>>, raised |-> None, registered |-> FALSE, ran |-> FALSE,
     resolved |-> {}, returns |-> <<>>, links |-> <<>>, document |-> <<>>]

ResolverIdle ==
    /\ nodes = <<>>
    /\ processor = [ran |-> FALSE]
    /\ resolveLog = <<>>

ResolverInit ==
    /\ nodes = <<>>
    /\ processor = NewProcessor
    /\ resolveLog = <<>>

\* with self.context.create_scope(node): a child of the current scope
\* becomes the current scope and the scope mapped to the node.
create_scope(r, node) ==
    [r EXCEPT !.parent = Append(@, r.current),
              !.items = Append(@, <<>>),
              !.mapping = Put(@, node, Len(r.parent) + 1),
              !.current = Len(r.parent) + 1]

\* with self.context.use_scope(node)
use_scope(r, node) == [r EXCEPT !.current = r.mapping[node]]

\* The end of a with block: the scope that was current before is current.
leave(r, scope) == [r EXCEPT !.current = scope]

\* current_scope.create_name(name, value)
bind(r, name, value) ==
    IF assert_name_unused(r.items, r.current, name) /= None
    THEN [r EXCEPT !.raised = "NameAlreadyBound"]
    ELSE [r EXCEPT !.items = create_name(@, r.current, name, value)]

\* The items of scope i and of its ancestors, the root first.
RECURSIVE ScopeChain(_, _)
ScopeChain(r, i) ==
    IF i = 0 THEN <<>> ELSE Append(ScopeChain(r, r.parent[i]), r.items[i])

LookupIn(chain, name, default) ==
    lookup_name(chain, Len(chain), name, TRUE, default)

(***************************************************************************)
(* NodeRegistry.register                                                   *)
(***************************************************************************)
RECURSIVE RegisterAll(_, _, _, _)
RECURSIVE RegisterNode(_, _, _)

RegisterClass(r, node, at, outer) ==
    IF r.raised /= None THEN r
    ELSE leave(RegisterAll(create_scope(r, Value("Class", at)),
                           node.inner, at, 1), outer)

NewGroup(r, node, at) ==
    bind(leave([create_scope(r, Value("Group", at))
                    EXCEPT !.injected = Append(@, at),
                           !.overloads = Put(@, at, <<>>)], r.current),
         node.name, Value("Group", at))

PrependOverload(members, at) == <<at>> \o members
AppendOverload(members, at) == Append(members, at)

RegisterSignature(r, node, at, outer) ==
    leave(IF node.body
          THEN RegisterAll(create_scope(create_scope(r, Value("Function", at)),
                                        Value("Function", at)),
                           node.inner, at, 1)
          ELSE create_scope(r, Value("Function", at)),
          outer)

RegisterOverload(r, owner, node, at, outer) ==
    RegisterSignature([r EXCEPT !.overloads[owner] = AppendOverload(@, at)],
                      node, at, outer)

RegisterFunction(r, node, at, found) ==
    IF found.outcome = "default"
    THEN RegisterOverload(NewGroup(r, node, at), at, node, at, r.current)
    ELSE IF found.value.kind /= "Group"
    THEN [r EXCEPT !.errors = Append(@, [at |-> at, error |-> "already bound"])]
    ELSE RegisterOverload(r, found.value.at, node, at, r.current)

RegisterNode(r, node, at) ==
    IF r.raised /= None THEN r
    ELSE IF node.kind = "Var" THEN bind(r, node.name, Value("Var", at))
    ELSE IF node.kind = "Class"
    THEN RegisterClass(bind(r, node.name, Value("Class", at)), node, at,
                       r.current)
    ELSE RegisterFunction(r, node, at,
            lookup_name(r.items, r.current, node.name, FALSE, Some(0)))

RegisterAll(r, declarations, prefix, j) ==
    IF j > Len(declarations) THEN r
    ELSE RegisterAll(RegisterNode(r, declarations[j], Append(prefix, j)),
                     declarations, prefix, j + 1)

(***************************************************************************)
(* NodeResolver.resolve.  A function that the registry reported as an      *)
(* error is None in the resolved tree, and resolve(None) is None.          *)
(***************************************************************************)
RECURSIVE ResolveAll(_, _, _, _)
RECURSIVE ResolveNode(_, _, _)

Enter(r, node) == [r EXCEPT !.resolved = @ \cup {node}]

Linked(r, node, found) ==
    IF found.outcome = "NameNotFoundError"
    THEN [r EXCEPT !.raised = "NameNotFoundError"]
    ELSE [r EXCEPT !.returns = Put(@, node, found.value),
                   !.links = Append(@, [at |-> node.at, scope |-> r.current,
                                        value |-> found.value])]

ResolveIdentifier(r, ref, at) ==
    IF r.raised /= None \/ ref = Absent THEN r
    ELSE IF Value("Identifier", at) \in r.resolved THEN r
    ELSE Linked(Enter(r, Value("Identifier", at)), Value("Identifier", at),
                LookupIn(ScopeChain(r, r.current), ref[1], Absent))

ResolveNode(r, node, at) ==
    IF r.raised /= None THEN r
    ELSE IF node.kind = "Function"
            /\ Value("Function", at) \notin DOMAIN r.mapping THEN r
    ELSE IF Value(node.kind, at) \in r.resolved THEN r
    ELSE IF node.kind = "Var"
    THEN ResolveIdentifier(Enter(r, Value("Var", at)), node.ref, at)
    ELSE leave(ResolveAll(ResolveIdentifier(
                              use_scope(Enter(r, Value(node.kind, at)),
                                        Value(node.kind, at)),
                              node.ref, at),
                          node.inner, at, 1),
               r.current)

ResolveAll(r, declarations, prefix, j) ==
    IF j > Len(declarations) THEN r
    ELSE ResolveAll(ResolveNode(r, declarations[j], Append(prefix, j)),
                    declarations, prefix, j + 1)

RECURSIVE ResolveOverloads(_, _, _)
ResolveOverloads(r, members, j) ==
    IF j > Len(members) THEN r
    ELSE ResolveOverloads(
            ResolveNode(r, NodeAt(r.document, members[j]), members[j]),
            members, j + 1)

GroupParent(r, at, found) ==
    IF found.outcome = "NameNotFoundError"
    THEN [r EXCEPT !.raised = "NameNotFoundError"]
    ELSE ResolveOverloads(r, r.overloads[at], 1)

ResolveGroup(r, at, scope) ==
    IF r.raised /= None \/ Value("Group", at) \in r.resolved THEN r
    ELSE leave(GroupParent(
                   [Enter(r, Value("Group", at))
                        EXCEPT !.current = r.parent[r.parent[scope]]],
                   at,
                   LookupIn(ScopeChain(r, r.parent[r.parent[scope]]),
                            NodeAt(r.document, at).name, Some(0))),
               r.current)

RECURSIVE ResolveInjected(_, _)
ResolveInjected(r, j) ==
    IF j > Len(r.injected) THEN r
    ELSE ResolveInjected(
            ResolveGroup(r, r.injected[j],
                         r.mapping[Value("Group", r.injected[j])]), j + 1)

Registered(r) == [r EXCEPT !.registered = (r.raised = None)]

processor_resolve(r, document) ==
    [ResolveInjected(
        ResolveAll(Registered(RegisterAll([r EXCEPT !.document = document],
                                          document, <<>>, 1)),
                   document, <<>>, 1), 1)
        EXCEPT !.ran = TRUE]

(***************************************************************************)
(* NodeProcessor.add_node, NodeProcessor.resolve, and a call of            *)
(* NodeResolver.resolve on a top-level resolved node or on the identifier  *)
(* of its type, base or return type once the registry has made the         *)
(* resolved nodes and the passes have run.                                 *)
(***************************************************************************)
AddNode(node) ==
    /\ ~processor.ran
    /\ Len(nodes) < MaxTop
    /\ nodes' = Append(nodes, node)
    /\ UNCHANGED <<processor, resolveLog>>
    /\ UNCHANGED notResolver

ProcessorResolve ==
    /\ ~processor.ran
    /\ processor' = processor_resolve(processor, nodes)
    /\ nodes' = IF processor'.raised = None THEN <<>> ELSE nodes
    /\ UNCHANGED resolveLog
    /\ UNCHANGED notResolver

ResolveReturned(before, after, node) ==
    IF node \in before.resolved THEN node
    ELSE IF after.raised /= None THEN Value(after.raised, node.at)
    ELSE IF node \in DOMAIN after.returns THEN after.returns[node]
    ELSE node

Called(r, k, identifier) ==
    IF identifier THEN ResolveIdentifier(r, r.document[k].ref, <<k>>)
    ELSE ResolveNode(r, r.document[k], <<k>>)

ResolverResolve(k, identifier) ==
    /\ processor.ran
    /\ processor.registered
    /\ resolveLog = <<>>
    /\ k \in 1..Len(processor.document)
    /\ identifier => processor.document[k].ref /= Absent
    /\ ~identifier /\ processor.document[k].kind = "Function"
          => Value("Function", <<k>>) \in DOMAIN processor.mapping
    /\ processor' = Called([processor EXCEPT !.raised = None], k, identifier)
    /\ resolveLog' = Append(resolveLog,
          [node |-> Value(IF identifier THEN "Identifier"
                          ELSE processor.document[k].kind, <<k>>),
           second |-> Value(IF identifier THEN "Identifier"
                            ELSE processor.document[k].kind, <<k>>)
                        \in processor.resolved,
           returned |-> ResolveReturned(processor, processor',
                          Value(IF identifier THEN "Identifier"
                                ELSE processor.document[k].kind, <<k>>))])
    /\ UNCHANGED nodes
    /\ UNCHANGED notResolver

ResolverNext ==
    \/ \E node \in Declarations : AddNode(node)
    \/ ProcessorResolve
    \/ \E k \in 1..MaxTop, identifier \in BOOLEAN : ResolverResolve(k, identifier)


(***************************************************************************)
(* 8. THE CODE COMPILER AND ITS CODE CONTEXTS                              *)
(*                                                                         *)
(* CodeCompiler keeps a stack of code contexts, the top-level one at the   *)
(* bottom.  A node is its type; the nodes compiled here have no            *)
(* sub-expressions (a VarDeclaration without initializer).  The result of  *)
(* a context is None (Absent) or a list of instructions, each naming the   *)
(* compiler that emitted it; a list may be empty.                          *)
(***************************************************************************)
MaxContexts == 3        \* code contexts entered above the top-level one

CodeContexts ==
    {"FunctionBodyCompiler", "MethodBodyCompiler", "FunctionSignatureCompiler",
     "LoopBodyCompiler", "GenericContextCompiler"}

NodeTypes ==
    {"ResolvedImport", "ResolvedObject", "ResolvedVar", "ResolvedParameter",
     "ResolvedGenericParameter", "ResolvedBreak", "VarDeclaration",
     "ResolvedFunctionCall", "ResolvedFunction"}

CompilerIdle ==
    /\ contextStack = <<>>
    /\ compiled = Absent

CompilerInit ==
    /\ contextStack = <<"TopLevelCodeCompiler">>
    /\ compiled = Absent

\* The node types that a code context registers a handler for.
Handlers(ctx) ==
    CASE ctx = "TopLevelCodeCompiler" -> {"ResolvedImport", "ResolvedObject"}
      [] ctx \in {"FunctionBodyCompiler", "MethodBodyCompiler"} ->
            {"ResolvedVar", "ResolvedParameter", "ResolvedGenericParameter",
             "VarDeclaration"}
      [] ctx = "FunctionSignatureCompiler" ->
            {"ResolvedGenericParameter", "ResolvedParameter"}
      [] ctx = "LoopBodyCompiler" -> {"ResolvedBreak"}
      [] ctx = "GenericContextCompiler" -> {"ResolvedGenericParameter"}

Instruction(by, type) == [by |-> by, node |-> type]

\* CodeContext.compile: the handler's result; None without a handler, and
\* for the top-level handler of an import, which returns nothing.
context_compile(ctx, type) ==
    IF type \notin Handlers(ctx) THEN Absent
    ELSE IF type = "ResolvedImport" THEN Absent
    ELSE IF type = "VarDeclaration" THEN Some(<<>>)
    ELSE Some(<<Instruction(ctx, type)>>)

\* CodeCompiler._compile, the default compiler.
default_compile(stack, type) ==
    IF type \in {"ResolvedImport", "ResolvedVar"}
    THEN context_compile(stack[Len(stack)], type)
    ELSE IF type \in {"ResolvedObject", "ResolvedFunctionCall"}
    THEN Some(<<Instruction("CodeCompiler", type)>>)
    ELSE Some(<<Instruction("TypeError", type)>>)

\* CodeGenerationResult(list(result))
CodeGenerationResult(result, fallback) ==
    IF result = Absent \/ (result[1] /= <<>> /\ result[1][1].by = "TypeError")
    THEN [outcome |-> "TypeError", code |-> <<>>, fallback |-> fallback]
    ELSE [outcome |-> "result", code |-> result[1], fallback |-> fallback]

\* reversed(self._code_context_stack): the innermost context first.
NotReversed(stack) == stack
Reversed(stack) == [i \in 1..Len(stack) |-> stack[Len(stack) + 1 - i]]

\* The loop of CodeCompiler.compile over the contexts from the i-th of
\* `order` on, and its else branch.
RECURSIVE code_compile(_, _, _, _)
code_compile(stack, order, i, type) ==
    IF i > Len(order)
    THEN CodeGenerationResult(default_compile(stack, type), TRUE)
    ELSE IF context_compile(order[i], type) /= Absent
    THEN CodeGenerationResult(context_compile(order[i], type), FALSE)
    ELSE code_compile(stack, order, i + 1, type)

\* with self.code_context(ctx): entering
CodeContextEnter(ctx) ==
    /\ Len(contextStack) < MaxContexts + 1
    /\ contextStack' = Append(contextStack, ctx)
    /\ compiled' = Absent
    /\ UNCHANGED notCompiler

\* with self.code_context(ctx): leaving
CodeContextExit ==
    /\ Len(contextStack) > 1
    /\ contextStack' = SubSeq(contextStack, 1, Len(contextStack) - 1)
    /\ compiled' = Absent
    /\ UNCHANGED notCompiler

Compile(type) ==
    /\ compiled' = Some([stack |-> contextStack, node |-> type,
                         result |-> code_compile(contextStack,
                                                 Reversed(contextStack),
                                                 1, type)])
    /\ UNCHANGED contextStack
    /\ UNCHANGED notCompiler

CompilerNext ==
    \/ \E ctx \in CodeContexts : CodeContextEnter(ctx)
    \/ CodeContextExit
    \/ \E type \in NodeTypes : Compile(type)

(***************************************************************************)
(* 9. WHILE LOOPS IN THE CODE COMPILER                                     *)
(*                                                                         *)
(* A while loop (loop 1) whose body is a list of statements, then at most  *)
(* one inner while loop (loop 2), then a list of statements.  A statement  *)
(* is a plain one, a break or a continue; a break or continue is           *)
(* unlabelled (label 0) or names an enclosing loop.  A loop has an else    *)
(* block of one plain statement or none.  An instruction has the place in  *)
(* the source that it was emitted for (loop, part, index) and, if it is a  *)
(* jump, the place of the instruction it jumps to.                         *)
(***************************************************************************)
MaxBody == 1            \* statements in one part of a loop body

Statement(kind, label) == [kind |-> kind, label |-> label]

SimpleStatements(labels) ==
    {Statement("stmt", 0)}
    \cup {Statement(kind, label) : kind \in {"break", "continue"}, label \in labels}

InnerLoops ==
    {[body |-> body, else |-> else] :
        body \in SeqsUpTo(SimpleStatements({0, 1, 2}), MaxBody), else \in BOOLEAN}

LoopPrograms ==
    {[pre |-> pre, inner |-> inner, post |-> post, else |-> else] :
        pre \in SeqsUpTo(SimpleStatements({0, 1}), MaxBody),
        inner \in {Absent} \cup {Some(loop) : loop \in InnerLoops},
        post \in SeqsUpTo(SimpleStatements({0, 1}), MaxBody),
        else \in BOOLEAN}

LoopsIdle ==
    /\ loopProgram = Absent
    /\ loopCode = Absent

LoopsInit ==
    /\ loopProgram \in {Some(program) : program \in LoopPrograms}
    /\ loopCode = Absent

Op(op, at, to) == [op |-> op, at |-> at, to |-> to]

\* LoopBodyCompiler.node: entering and leaving the with block.
node_enter(lc, n) == [loop |-> n, cache |-> lc.cache \cup {n}]
node_exit(lc, n, loop) == [loop |-> loop, cache |-> lc.cache \ {n}]

\* LoopBodyCompiler._compile (ResolvedBreak)
break_compile(lc, loop, at) ==
    IF loop \notin lc.cache THEN <<Op("KeyError", at, <<>>)>>
    ELSE <<Op("Jump", at, <<loop, "break", 0>>)>>

\* CodeCompiler.compile on a statement of a loop body: the loop context
\* handles a break; no context and no handler of the default compiler
\* takes a continue.
statement_compile(lc, statement, at) ==
    IF statement.kind = "break"
    THEN break_compile(lc, IF statement.label /= 0 THEN statement.label
                           ELSE lc.loop, at)
    ELSE IF statement.kind = "continue" THEN <<Op("TypeError", at, <<>>)>>
    ELSE <<Op("Statement", at, <<>>)>>

\* CodeCompiler._compile (ResolvedBlock) on the statements from the k-th on.
RECURSIVE block_compile(_, _, _, _, _)
block_compile(lc, statements, n, part, k) ==
    IF k > Len(statements) THEN <<>>
    ELSE statement_compile(lc, statements[k], <<n, part, k>>)
         \o block_compile(lc, statements, n, part, k + 1)

Condition(n) ==
    <<Op("Condition", <<n, "condition", 1>>, <<>>),
      Op("Condition", <<n, "condition", 2>>, <<>>)>>

IfTrue(n, body) == <<Op("NoOperation", <<n, "continue", 0>>, <<>>)>> \o body

IfFalse(n, else) ==
    (IF else THEN <<Op("Statement", <<n, "else", 1>>, <<>>)>> ELSE <<>>)
    \o <<Op("NoOperation", <<n, "break", 0>>, <<>>)>>

\* The instructions that CodeCompiler._compile (ResolvedWhile) returns.
while_emit(n, condition, if_true, if_false) ==
    condition
    \o <<Op("JumpIfFalse", <<n, "test", 0>>, if_false[1].at)>>
    \o if_true
    \o <<Op("Jump", <<n, "again", 0>>, condition[1].at)>>
    \o if_false

\* CodeCompiler._compile (ResolvedWhile) on the inner loop.
inner_compile(lc, inner) ==
    IF inner = Absent THEN <<>>
    ELSE while_emit(2, Condition(2),
                    IfTrue(2, block_compile(node_enter(lc, 2), inner[1].body,
                                            2, "body", 1)),
                    IfFalse(2, inner[1].else))

\* The body of the outer loop: the statements before the inner loop, the
\* inner loop, the statements after it, compiled by a loop context that the
\* inner loop has entered and left.
body_compile(lc, program) ==
    block_compile(lc, program.pre, 1, "pre", 1)
    \o inner_compile(lc, program.inner)
    \o block_compile(IF program.inner = Absent THEN lc
                     ELSE node_exit(node_enter(lc, 2), 2, lc.loop),
                     program.post, 1, "post", 1)

Raised(code) ==
    IF \E i \in 1..Len(code) : code[i].op \in {"TypeError", "KeyError"}
    THEN code[CHOOSE i \in 1..Len(code) :
                 code[i].op \in {"TypeError", "KeyError"}].op
    ELSE "result"

while_compile(program) ==
    while_emit(1, Condition(1),
               IfTrue(1, body_compile(node_enter([loop |-> 0, cache |-> {}], 1),
                                      program)),
               IfFalse(1, program.else))

CompileWhile ==
    /\ loopCode = Absent
    /\ loopCode' = Some([outcome |-> Raised(while_compile(loopProgram[1])),
                         code |-> while_compile(loopProgram[1])])
    /\ UNCHANGED loopProgram
    /\ UNCHANGED notLoops

LoopsNext == CompileWhile

(***************************************************************************)
(* 10. THE IMPORT SYSTEM: dispatch on the scheme of a source               *)
(*                                                                         *)
(* A chain of import systems: system 1 has no parent, the parent of system *)
(* i is system i - 1.  A source is a string over a letter, a digit and the *)
(* colon.  An importer registered under a scheme is an object of another   *)
(* component: its import_from returns a scope or raises; the one exception *)
(* it may raise that import_from of the import system looks at is          *)
(* KeyError.                                                               *)
(***************************************************************************)
MaxSystems == 3         \* import systems in the chain
MaxSource == 3          \* characters of a source

Characters == {"a", "1", ":"}
SourceStrings == SeqsUpTo(Characters, MaxSource)
Schemes == {<<"a">>, <<"a", "a">>}
ImporterBehaviours == {"returns", "KeyError"}

SystemsIdle ==
    /\ systems = <<>>
    /\ imported = Absent

\* ImportSystem.__init__ of the first import system
SystemsInit ==
    /\ systems = << <<>> >>
    /\ imported = Absent

\* The number of leading letters of a source.
RECURSIVE LettersOf(_, _)
LettersOf(source, k) ==
    IF k <= Len(source) /\ source[k] = "a" THEN LettersOf(source, k + 1)
    ELSE k - 1

\* re.match(r"(?P<importer>[A-Za-z]+):(?P<source>.*)", source): the groups
\* importer and source, or None.
scheme_match(source, letters) ==
    IF letters >= 1 /\ letters < Len(source) /\ source[letters + 1] = ":"
    THEN Some([importer |-> SubSeq(source, 1, letters),
               source |-> SubSeq(source, letters + 2, Len(source))])
    ELSE Absent

ImporterCall(system, source) == [system |-> system, source |-> source]

Import(outcome, calls) == [outcome |-> outcome, calls |-> calls]

\* self.parent._importers[importer].import_from(source), after a KeyError
\* of the system itself that came with the importer calls `calls`.
parent_import(chain, i, groups, calls) ==
    IF i = 1 THEN Import("KeyError", calls)
    ELSE IF groups.importer \notin DOMAIN chain[i - 1]
    THEN Import("KeyError", calls)
    ELSE Import(chain[i - 1][groups.importer],
                Append(calls, ImporterCall(i - 1, groups.source)))

\* ImportSystem.import_from on system i of the chain.
import_from(chain, i, found) ==
    IF found = Absent THEN Import("path", <<>>)
    ELSE IF found[1].importer \notin DOMAIN chain[i]
    THEN parent_import(chain, i, found[1], <<>>)
    ELSE IF chain[i][found[1].importer] = "KeyError"
    THEN parent_import(chain, i, found[1],
                       <<ImporterCall(i, found[1].source)>>)
    ELSE Import("returns", <<ImporterCall(i, found[1].source)>>)

\* ImportSystem(compiler, parent) on the last system of the chain
NewImportSystem ==
    /\ Len(systems) < MaxSystems
    /\ systems' = Append(systems, <<>>)
    /\ imported' = Absent
    /\ UNCHANGED notSystems

\* ImportSystem.add_importer of an importer that is not yet registered
AddImporter(i, scheme, behaviour) ==
    /\ i \in 1..Len(systems)
    /\ scheme \notin DOMAIN systems[i]
    /\ systems' = [systems EXCEPT ![i] =
                      [s \in DOMAIN @ \cup {scheme} |->
                          IF s = scheme THEN behaviour ELSE @[s]]]
    /\ imported' = Absent
    /\ UNCHANGED notSystems

\* ImportSystem.import_from on the last system of the chain
ImportFrom(source) ==
    /\ imported' = Some([source |-> source, chain |-> systems,
                         result |-> import_from(systems, Len(systems),
                                       scheme_match(source,
                                                    LettersOf(source, 1)))])
    /\ UNCHANGED systems
    /\ UNCHANGED notSystems

SystemsNext ==
    \/ NewImportSystem
    \/ \E i \in 1..MaxSystems, scheme \in Schemes,
          behaviour \in ImporterBehaviours : AddImporter(i, scheme, behaviour)
    \/ \E source \in SourceStrings : ImportFrom(source)

(***************************************************************************)
(* 11. THE TOKENIZER                                                       *)
(*                                                                         *)
(* Tokenizer.tokenize is a generator: each step below is what runs between *)
(* two yields, except for the loop of _next_string, which is taken one     *)
(* iteration at a time.  The text is over an alphabet that has one         *)
(* character of each kind the branches of _next tell apart: the quote, the *)
(* backslash, the two characters of the comment brackets, the newline, a   *)
(* letter, the letter of an integer suffix, and a digit.                   *)
(***************************************************************************)
MaxText == 4            \* characters of a document

TextCharacters == {"\"", "\\", "/", "*", "\n", "a", "i", "8"}
Texts == SeqsUpTo(TextCharacters, MaxText)

_OP_CHARS == {"/", "*"}
AlphaNumeric == {"a", "i", "8"}
Digits == {"8"}

TokenizerIdle == tokenizer = Absent

\* Tokenizer.tokenize up to the first test of its loop: a new TextStream on
\* the document
TokenizerInit ==
    tokenizer \in {Some([text |-> text, position |-> 0, tokens |-> <<>>,
                         at |-> "tokenize", s |-> <<>>]) : text \in Texts}

\* TextStream.eof
eof(text, position) == position >= Len(text)

\* TextStream.peek(1): the next character, "" at the end of the text
peek(text, position) ==
    IF eof(text, position) THEN "" ELSE text[position + 1]

\* The position after TextStream.read(1): a read at the end of the text
\* returns "" and does not move.
read(text, position) ==
    IF eof(text, position) THEN position ELSE position + 1

\* Tokenizer._token: the token type and the text of its span
Token(type, text, start, position) ==
    [type |-> type, text |-> SubSeq(text, start + 1, position)]

\* while self._stream.peek() in chars: self._stream.read(1)
RECURSIVE read_while(_, _, _)
read_while(text, position, chars) ==
    IF peek(text, position) \in chars
    THEN read_while(text, position + 1, chars)
    ELSE position

\* while (c := self._stream.read(1)) != '\n' and not self._stream.eof()
RECURSIVE line_comment(_, _)
line_comment(text, position) ==
    IF peek(text, position) = "\n" \/ eof(text, read(text, position))
    THEN read(text, position)
    ELSE line_comment(text, position + 1)

\* The loop of the block comment, and the read that follows it.
RECURSIVE block_comment(_, _, _)
block_comment(text, position, level) ==
    IF level = 0 \/ eof(text, position)
    THEN read(text, position)
    ELSE block_comment(text, position + 1,
            IF peek(text, position) = "*" /\ peek(text, position + 1) = "/"
            THEN level - 1
            ELSE IF peek(text, position) = "/"
                    /\ peek(text, position + 1) = "*"
            THEN level + 1
            ELSE level)

\* Tokenizer._get_num_type for the suffix letter "i", already read: the
\* position after the suffix, or None where no branch returns.
_get_num_type(text, position) ==
    IF peek(text, position) = "8" THEN Some(position + 1) ELSE Absent

\* Tokenizer._next_number for a first character that is not "0": the
\* position after the number, or the TypeError of `value += None`.
_next_number(text, position, digits) ==
    IF peek(text, digits) = "i"
    THEN _get_num_type(text, digits + 1)
    ELSE Some(digits)

\* Tokenizer._next for a first character `char`, read from `start`: the
\* token type and the position after the token; no position where _next
\* raises, the type "String" where it goes on in _next_string.
_next(text, start, char) ==
    CASE char = "\n" -> [type |-> "NewLine", end |-> Some(start + 1)]
      [] char = "\"" -> [type |-> "String", end |-> Some(start + 1)]
      [] char = "/" /\ peek(text, start + 1) = "/" ->
            [type |-> "LineComment",
             end |-> Some(line_comment(text, start + 1))]
      [] char = "/" /\ peek(text, start + 1) = "*" ->
            [type |-> "BlockComment",
             end |-> Some(block_comment(text, start + 1, 1))]
      [] char \in _OP_CHARS
            /\ ~(char = "/" /\ peek(text, start + 1) \in {"/", "*"}) ->
            [type |-> "Operator",
             end |-> Some(read_while(text, start + 1, _OP_CHARS))]
      [] char \in {"a", "i"} ->
            [type |-> "Identifier",
             end |-> Some(read_while(text, start + 1, AlphaNumeric))]
      [] char \in Digits ->
            [type |-> "Decimal",
             end |-> _next_number(text, start + 1,
                                  read_while(text, start + 1, Digits))]
      [] OTHER -> [type |-> "Unknown", end |-> Some(start + 1)]

\* One pass of the loop of tokenize: `yield self._next()`, or the start of
\* a string literal, or the exception that _next raises.
yield_next(t, token) ==
    IF token.end = Absent
    THEN [t EXCEPT !.at = "TypeError"]
    ELSE IF token.type = "String"
    THEN [t EXCEPT !.position = token.end[1], !.at = "_next_string",
                   !.s = <<>>]
    ELSE [t EXCEPT !.position = token.end[1],
                   !.tokens = Append(@, Token(token.type, t.text, t.position,
                                              token.end[1]))]

\* while not self._stream.eof(): yield self._next()
TokenizeNext ==
    /\ tokenizer /= Absent
    /\ tokenizer[1].at = "tokenize"
    /\ ~eof(tokenizer[1].text, tokenizer[1].position)
    /\ tokenizer' = Some(yield_next(tokenizer[1],
                            _next(tokenizer[1].text, tokenizer[1].position,
                                  peek(tokenizer[1].text,
                                       tokenizer[1].position))))
    /\ UNCHANGED notTokenizer

\* One iteration of `while self._stream.peek() != '\"'` in _next_string: a
\* character is read, and the one after it when it is a backslash; s is the
\* join of the list s of the code, which at the end of the text gains one
\* more empty string.
StringIteration ==
    /\ tokenizer /= Absent
    /\ tokenizer[1].at = "_next_string"
    /\ peek(tokenizer[1].text, tokenizer[1].position) /= "\""
    /\ tokenizer' = Some(
         LET t == tokenizer[1]
             after == IF peek(t.text, t.position) = "\\"
                      THEN read(t.text, read(t.text, t.position))
                      ELSE read(t.text, t.position)
         IN  [t EXCEPT !.position = after,
                       !.s = @ \o SubSeq(t.text, t.position + 1, after)])
    /\ UNCHANGED notTokenizer

\* The end of _next_string: the closing quote is read and the token yielded
StringEnd ==
    /\ tokenizer /= Absent
    /\ tokenizer[1].at = "_next_string"
    /\ peek(tokenizer[1].text, tokenizer[1].position) = "\""
    /\ tokenizer' = Some(
         LET t == tokenizer[1]
         IN  [t EXCEPT !.position = t.position + 1, !.at = "tokenize",
                       !.s = <<>>,
                       !.tokens = Append(@, [type |-> "String",
                                             text |-> t.s])])
    /\ UNCHANGED notTokenizer

\* The else branch of the loop of tokenize: yield the EOF token
YieldEOF ==
    /\ tokenizer /= Absent
    /\ tokenizer[1].at = "tokenize"
    /\ eof(tokenizer[1].text, tokenizer[1].position)
    /\ tokenizer' = Some([tokenizer[1] EXCEPT
                            !.at = "finished",
                            !.tokens = Append(@, [type |-> "EOF",
                                                  text |-> <<>>])])
    /\ UNCHANGED notTokenizer

TokenizerNext ==
    \/ TokenizeNext
    \/ StringIteration
    \/ StringEnd
    \/ YieldEOF

(***************************************************************************)
(* 12. THE INTERPRETER: when                                               *)
(*                                                                         *)
(* A when node is its cases and its else body.  What the handler looks at  *)
(* of a case is whether its value equals the subject and how the run of    *)
(* its body ends: normally, or with the exception of a break or of a       *)
(* continue statement.                                                     *)
(***************************************************************************)
MaxCases == 3           \* cases of a when

BodyEnds == {"normal", "break", "continue"}
WhenCases == [equal : BOOLEAN, body : BodyEnds]
Whens == [cases : SeqsUpTo(WhenCases, MaxCases), else_body : BOOLEAN]

WhenIdle ==
    /\ whenNode = Absent
    /\ whenRun = Absent

WhenInit ==
    /\ whenNode \in {Some(when) : when \in Whens}
    /\ whenRun = Absent

\* What the run of a when has done: the cases whose expression was
\* compared with the subject, the cases whose body ran, whether the loop
\* over the cases was left by break, and whether the else body ran.
WhenTrace(compared, bodies, broke, else_ran) ==
    [compared |-> compared, bodies |-> bodies, broke |-> broke,
     else_ran |-> else_ran]

\* One pass of `for case in when.cases` for a case whose body runs.
case_body(trace, k, end) ==
    [trace EXCEPT !.bodies = Append(@, k), !.broke = end /= "continue"]

\* `for case in when.cases`, from case k
RECURSIVE when_cases(_, _, _, _)
when_cases(cases, k, skip_validation, trace) ==
    IF k > Len(cases) \/ trace.broke THEN trace
    ELSE IF skip_validation
    THEN when_cases(cases, k + 1, cases[k].body = "continue",
                    case_body(trace, k, cases[k].body))
    ELSE IF cases[k].equal
    THEN when_cases(cases, k + 1, cases[k].body = "continue",
                    case_body([trace EXCEPT !.compared = Append(@, k)],
                              k, cases[k].body))
    ELSE when_cases(cases, k + 1, FALSE,
                    [trace EXCEPT !.compared = Append(@, k)])

\* The else clause of the for loop: it runs when the loop was not left by
\* break.
when_else(when, trace) ==
    [trace EXCEPT !.else_ran = ~trace.broke /\ when.else_body]

\* Interpreter._exec of a When node
ExecuteWhen ==
    /\ whenNode /= Absent
    /\ whenRun = Absent
    /\ whenRun' = Some(when_else(whenNode[1],
                         when_cases(whenNode[1].cases, 1, FALSE,
                                    WhenTrace(<<>>, <<>>, FALSE, FALSE))))
    /\ UNCHANGED whenNode
    /\ UNCHANGED notWhen

WhenNext == ExecuteWhen

(***************************************************************************)
(* 13. MATCHING: generic parameters, receivers, the caller's type_mappings *)
(*                                                                         *)
(* One call of Function.match or of Method.match on one signature.  The    *)
(* body of Method.match is the body of Function.match after the two lines  *)
(* that insert the receiver.  A call that passes no type_mappings gives    *)
(* the match a dictionary of its own; a call that passes one has it        *)
(* written by check_assignability.                                         *)
(***************************************************************************)
MaxParameters == 2      \* positional parameters of a signature

ParameterTypes == {"T", "Int32"}
GenericSignatures ==
    {Signature([k \in DOMAIN types |-> P("x", types[k])], named, Absent, Absent) :
        types \in SeqsUpTo(ParameterTypes, MaxParameters),
        named \in {<<>>, <<P("a", "T")>>, <<D("a", "T")>>}}
TypeMappings ==
    {<<>>, [g \in {"T"} |-> "Int32"], [g \in {"T"} |-> "Any"]}
MatchCalls ==
    [signature : GenericSignatures,
     positional_arguments : SeqsUpTo(ArgTypes, MaxArgs),
     named_arguments : {<<>>} \cup {<< <<"a", type>> >> : type \in ArgTypes},
     strict : BOOLEAN,
     type_mappings : {Absent} \cup {Some(mappings) : mappings \in TypeMappings},
     instance : {Absent} \cup {Some(type) : type \in ArgTypes},
     is_instance_bound : BOOLEAN]

CallIdle ==
    /\ matchCall = Absent
    /\ matchReturn = Absent

CallInit ==
    /\ matchCall \in {Some(call) : call \in MatchCalls}
    /\ matchReturn = Absent

\* if type_mappings is None: type_mappings = {}
mappings_of(type_mappings) ==
    IF type_mappings = Absent THEN <<>> ELSE type_mappings[1]

\* _FunctionIOverloaded.match; instance goes to **kwargs and is not used
function_match(call) ==
    match(call.signature, call.positional_arguments, call.named_arguments,
          call.strict, mappings_of(call.type_mappings))

\* if instance and self.is_instance_bound:
\*     positional_arguments = [instance, *positional_arguments]
with_instance_appended(call) ==
    IF call.instance /= Absent /\ call.is_instance_bound
    THEN call.positional_arguments \o <<call.instance[1]>>
    ELSE call.positional_arguments
with_instance(call) ==
    IF call.instance /= Absent /\ call.is_instance_bound
    THEN <<call.instance[1]>> \o call.positional_arguments
    ELSE call.positional_arguments

\* _MethodIOverloaded.match
method_match(call) ==
    match(call.signature, with_instance(call), call.named_arguments,
          call.strict, mappings_of(call.type_mappings))

\* function.match(positional_arguments, named_arguments, strict=...,
\* type_mappings=..., instance=...)
FunctionMatchCall ==
    /\ matchCall /= Absent
    /\ matchReturn = Absent
    /\ matchReturn' = Some([of |-> "Function",
                            result |-> function_match(matchCall[1])])
    /\ UNCHANGED matchCall
    /\ UNCHANGED notCall

\* method.match(positional_arguments, named_arguments, strict=...,
\* type_mappings=..., instance=...)
MethodMatchCall ==
    /\ matchCall /= Absent
    /\ matchReturn = Absent
    /\ matchReturn' = Some([of |-> "Method",
                            result |-> method_match(matchCall[1])])
    /\ UNCHANGED matchCall
    /\ UNCHANGED notCall

CallNext ==
    \/ FunctionMatchCall
    \/ MethodMatchCall

(***************************************************************************)
(* 14. THE INTERPRETER: the call of an overload group                      *)
(*                                                                         *)
(* A chain of overload groups, each the parent of the one before it.  An   *)
(* overload is its FunctionType: the parameter types and the return type,  *)
(* which is None for a function that declares none.                        *)
(***************************************************************************)
MaxGroups == 2          \* an overload group and its parent groups
MaxGroupOverloads == 2  \* overloads of one group
MaxCallArgs == 1        \* arguments of the call

RuntimeParameterTypes == {"Int32", "Any"}
FunctionTypes ==
    [parameters : SeqsUpTo(RuntimeParameterTypes, MaxCallArgs),
     returns : {Absent, Some("Unit")}]
GroupChains ==
    UNION {[1..n -> SeqsUpTo(FunctionTypes, MaxGroupOverloads)] : n \in 1..MaxGroups}

GroupsIdle ==
    /\ groupChain = <<>>
    /\ groupCall = Absent

GroupsInit ==
    /\ groupChain \in GroupChains
    /\ groupCall = Absent

\* FunctionType.get_type_of_call: the return type, or TypeError raised
get_type_of_call(type, types) ==
    IF Len(types) /= Len(type.parameters)
    THEN [raised |-> TRUE, returned |-> Absent]
    ELSE IF \E i \in 1..Len(types) : ~assignable_to(types[i], type.parameters[i])
    THEN [raised |-> TRUE, returned |-> Absent]
    ELSE [raised |-> FALSE, returned |-> type.returns]

\* One pass of `for overload in self.overloads`: the try block appends the
\* overload when the type of the call is true, the else clause of the try
\* appends it when no exception was raised.
appended(g, i, type_of_call) ==
    IF type_of_call.raised THEN <<>>
    ELSE IF type_of_call.returned /= Absent THEN << <<g, i>>, <<g, i>> >>
    ELSE << <<g, i>> >>

RECURSIVE matching_overloads(_, _, _, _, _)
matching_overloads(chain, g, types, i, result) ==
    IF i > Len(chain[g]) THEN result
    ELSE matching_overloads(chain, g, types, i + 1,
            result \o appended(g, i, get_type_of_call(chain[g][i], types)))

\* OverloadGroup.get_matching_overloads_for_types on group g of the chain
RECURSIVE get_matching_overloads_for_types(_, _, _, _)
get_matching_overloads_for_types(chain, g, types, result) ==
    IF result = <<>> /\ g < Len(chain)
    THEN get_matching_overloads_for_types(chain, g + 1, types,
            matching_overloads(chain, g + 1, types, 1, <<>>))
    ELSE result

\* OverloadGroup.call: the overload that is called, or TypeError
group_call(members) ==
    IF members = <<>> THEN [outcome |-> "TypeError", overload |-> Absent]
    ELSE IF Len(members) > 1 THEN [outcome |-> "TypeError", overload |-> Absent]
    ELSE [outcome |-> "call", overload |-> Some(members[1])]

\* group.call(args, kwargs) on the first group of the chain
GroupCall(types) ==
    /\ groupChain /= <<>>
    /\ groupCall' = Some([types |-> types,
                          result |-> group_call(
                              get_matching_overloads_for_types(groupChain, 1, types,
                                  matching_overloads(groupChain, 1, types, 1, <<>>)))])
    /\ UNCHANGED groupChain
    /\ UNCHANGED notGroups

GroupsNext == \E types \in SeqsUpTo(ArgTypes, MaxCallArgs) : GroupCall(types)

(***************************************************************************)
(* SPECIFICATIONS                                                          *)
(***************************************************************************)

ImportIdle ==
    /\ imports = [p \in Paths |-> <<>>]
    /\ toolchains = <<>>
    /\ runs = [p \in Paths |-> 0]
    /\ importLog = <<>>
    /\ messages = <<>>
    /\ nextObject = 1
    /\ status = "idle"

PipelineIdle ==
    /\ defects = [p \in Paths |-> {}]
    /\ documents = <<>>
    /\ computed = [p \in Paths |-> [s \in StageSet |-> 0]]
    /\ stageMessages = <<>>
    /\ lastRequest = NoRequest
    /\ requestCount = 0

ObjectsIdle ==
    /\ ast = [fnName |-> <<>>, retType |-> <<>>, bodyRefs |-> <<>>]
    /\ build_order = <<>>
    /\ cache = <<>>
    /\ heap = <<>>
    /\ built = {}
    /\ defineStack = <<>>
    /\ todo = <<>>
    /\ cursor = 1
    /\ phase = "idle"
    /\ events = <<>>

\* The initial states of each part: the part starts, the others are idle.
InitImport == ImportInit /\ PipelineIdle /\ ObjectsIdle /\ FinderIdle /\ OverloadsIdle /\ ScopesIdle /\ ResolverIdle /\ CompilerIdle /\ LoopsIdle /\ SystemsIdle /\ TokenizerIdle /\ WhenIdle /\ CallIdle /\ GroupsIdle
InitPipeline == PipelineInit /\ ImportIdle /\ ObjectsIdle /\ FinderIdle /\ OverloadsIdle /\ ScopesIdle /\ ResolverIdle /\ CompilerIdle /\ LoopsIdle /\ SystemsIdle /\ TokenizerIdle /\ WhenIdle /\ CallIdle /\ GroupsIdle
InitObjects == ObjectsInit /\ ImportIdle /\ PipelineIdle /\ FinderIdle /\ OverloadsIdle /\ ScopesIdle /\ ResolverIdle /\ CompilerIdle /\ LoopsIdle /\ SystemsIdle /\ TokenizerIdle /\ WhenIdle /\ CallIdle /\ GroupsIdle
InitClassFinder == ClassFinderInit /\ ImportIdle /\ PipelineIdle /\ ObjectsIdle /\ OverloadsIdle /\ ScopesIdle /\ ResolverIdle /\ CompilerIdle /\ LoopsIdle /\ SystemsIdle /\ TokenizerIdle /\ WhenIdle /\ CallIdle /\ GroupsIdle
InitOverloads == OverloadsInit /\ ImportIdle /\ PipelineIdle /\ ObjectsIdle /\ FinderIdle /\ ScopesIdle /\ ResolverIdle /\ CompilerIdle /\ LoopsIdle /\ SystemsIdle /\ TokenizerIdle /\ WhenIdle /\ CallIdle /\ GroupsIdle

SpecImport == InitImport /\ [][ImportNext]_vars

SpecPipeline == InitPipeline /\ [][PipelineNext]_vars

SpecObjects == InitObjects /\ [][ObjectsNext]_vars

SpecClassFinder == InitClassFinder /\ [][ClassFinderNext]_vars

SpecOverloads == InitOverloads /\ [][OverloadsNext]_vars

InitMatch == MatchInit /\ ImportIdle /\ PipelineIdle /\ ObjectsIdle /\ FinderIdle /\ ScopesIdle /\ ResolverIdle /\ CompilerIdle /\ LoopsIdle /\ SystemsIdle /\ TokenizerIdle /\ WhenIdle /\ CallIdle /\ GroupsIdle
SpecMatch == InitMatch /\ [][MatchNext]_vars


InitScopes == ScopesInit /\ ImportIdle /\ PipelineIdle /\ ObjectsIdle /\ FinderIdle /\ OverloadsIdle /\ ResolverIdle /\ CompilerIdle /\ LoopsIdle /\ SystemsIdle /\ TokenizerIdle /\ WhenIdle /\ CallIdle /\ GroupsIdle
SpecScopes == InitScopes /\ [][ScopesNext]_vars

InitResolver == ResolverInit /\ ImportIdle /\ PipelineIdle /\ ObjectsIdle /\ FinderIdle /\ OverloadsIdle /\ ScopesIdle /\ CompilerIdle /\ LoopsIdle /\ SystemsIdle /\ TokenizerIdle /\ WhenIdle /\ CallIdle /\ GroupsIdle
SpecResolver == InitResolver /\ [][ResolverNext]_vars

InitCompiler == CompilerInit /\ ImportIdle /\ PipelineIdle /\ ObjectsIdle /\ FinderIdle /\ OverloadsIdle /\ ScopesIdle /\ ResolverIdle /\ LoopsIdle /\ SystemsIdle /\ TokenizerIdle /\ WhenIdle /\ CallIdle /\ GroupsIdle
SpecCompiler == InitCompiler /\ [][CompilerNext]_vars

InitLoops == LoopsInit /\ ImportIdle /\ PipelineIdle /\ ObjectsIdle /\ FinderIdle /\ OverloadsIdle /\ ScopesIdle /\ ResolverIdle /\ CompilerIdle /\ SystemsIdle /\ TokenizerIdle /\ WhenIdle /\ CallIdle /\ GroupsIdle
SpecLoops == InitLoops /\ [][LoopsNext]_vars

InitSystems == SystemsInit /\ ImportIdle /\ PipelineIdle /\ ObjectsIdle /\ FinderIdle /\ OverloadsIdle /\ ScopesIdle /\ ResolverIdle /\ CompilerIdle /\ LoopsIdle /\ TokenizerIdle /\ WhenIdle /\ CallIdle /\ GroupsIdle
SpecSystems == InitSystems /\ [][SystemsNext]_vars

InitTokenizer == TokenizerInit /\ ImportIdle /\ PipelineIdle /\ ObjectsIdle /\ FinderIdle /\ OverloadsIdle /\ ScopesIdle /\ ResolverIdle /\ CompilerIdle /\ LoopsIdle /\ SystemsIdle /\ WhenIdle /\ CallIdle /\ GroupsIdle
\* The consumer of the generator asks for tokens until the generator ends.
SpecTokenizer == InitTokenizer /\ [][TokenizerNext]_vars /\ WF_vars(TokenizerNext)

InitWhen == WhenInit /\ ImportIdle /\ PipelineIdle /\ ObjectsIdle /\ FinderIdle /\ OverloadsIdle /\ ScopesIdle /\ ResolverIdle /\ CompilerIdle /\ LoopsIdle /\ SystemsIdle /\ TokenizerIdle /\ CallIdle /\ GroupsIdle
SpecWhen == InitWhen /\ [][WhenNext]_vars

InitCall == CallInit /\ ImportIdle /\ PipelineIdle /\ ObjectsIdle /\ FinderIdle /\ OverloadsIdle /\ ScopesIdle /\ ResolverIdle /\ CompilerIdle /\ LoopsIdle /\ SystemsIdle /\ TokenizerIdle /\ WhenIdle /\ GroupsIdle
SpecCall == InitCall /\ [][CallNext]_vars

InitGroups == GroupsInit /\ ImportIdle /\ PipelineIdle /\ ObjectsIdle /\ FinderIdle /\ OverloadsIdle /\ ScopesIdle /\ ResolverIdle /\ CompilerIdle /\ LoopsIdle /\ SystemsIdle /\ TokenizerIdle /\ WhenIdle /\ CallIdle
SpecGroups == InitGroups /\ [][GroupsNext]_vars

(***************************************************************************)
(* CLAIMS                                                                  *)
(***************************************************************************)

\* C1: a second import_file of a path returns the result scope of the first
\* one, and the pipeline of the imported document has run exactly once.
C1_ImportIsIdempotent ==
    \A i, j \in DOMAIN importLog :
        (i < j /\ importLog[i].source = importLog[j].source /\ importLog[i].result /= Absent)
            => /\ importLog[j].result = importLog[i].result
               /\ runs[importLog[i].source] = 1

\* C2: no document's pipeline is entered while it is already running (an
\* import of A issued inside B, itself imported by A, does not re-enter A),
\* and the chain of imports ends instead of exhausting the stack.
C2_CyclicImportStops ==
    /\ \A i, j \in DOMAIN toolchains :
        i /= j => toolchains[i].path /= toolchains[j].path
    /\ status /= "crashed"

C4_ErrorStopsPipeline ==
    \A k \in DOMAIN stageMessages :
        \A t \in StageSet :
            StageIndex(t) > StageIndex(stageMessages[k][2])
                => computed[stageMessages[k][1]][t] = 0

\* ---- objects stage ----

\* C5: in the objects stage the construct step of every resolved node,
\* injected overload groups included, completes before the define step of any
\* node starts: no construct follows a define start.
C5_ConstructBeforeDefine ==
    \A i, j \in DOMAIN events :
        i < j => ~(events[i].ev = "defineStart" /\ events[j].ev = "construct")

\* C6: once the define stage of a node has completed it is never run again,
\* by the define loop or by require_definition, and its object is not mutated
\* afterwards (a function's return type is assigned once).
C6_DefinedOnce ==
    /\ \A i, j \in DOMAIN events :
        i < j => ~(/\ events[i].ev = "defineEnd"
                   /\ events[j].ev = "defineStart"
                   /\ events[j].node = events[i].node)
    /\ \A o \in DOMAIN heap : heap[o].writes <= 1

\* A compile-time expression on a cycle: a return type that calls a group
\* whose overloads, through their own return types, lead back to the function.
CompileTimeCalls(a, f, g) == a.retType[f] = Group(a.fnName[g])
NoCompileTimeCycle(a) ==
    \A f \in Functions :
        /\ ~CompileTimeCalls(a, f, f)
        /\ \A g \in Functions : ~(CompileTimeCalls(a, f, g) /\ CompileTimeCalls(a, g, f))

\* A circular definition: a function whose body calls its own group, or two
\* functions whose bodies call each other's groups.
Circular(a) ==
    \/ \E f \in Functions : a.fnName[f] \in a.bodyRefs[f]
    \/ /\ a.fnName["f2"] \in a.bodyRefs["f1"]
       /\ a.fnName["f1"] \in a.bodyRefs["f2"]

NoReentry ==
    \A i, j \in DOMAIN defineStack : i /= j => defineStack[i].node /= defineStack[j].node

DefineStartOf(j) ==
    CHOOSE k \in 1..j :
        /\ events[k].ev = "defineStart" /\ events[k].node = events[j].by
        /\ \A m \in (k + 1)..j :
            ~(events[m].ev = "defineStart" /\ events[m].node = events[j].by)
C8_EvaluatedDefinedEarlier ==
    \A j \in DOMAIN events :
        events[j].ev = "evaluate" =>
            \E i \in 1..DefineStartOf(j) :
                events[i].ev = "defineEnd" /\ events[i].node = events[j].node

\* ---- dependency finder ----

\* Classes that reach themselves through their bases: a cycle that splitting
\* declaration from definition cannot break.
BaseEdges == {e \in Classes \X Classes : e[2] \in Range(bases[e[1]])}
UnbreakableCycle == \E c \in Classes : Reaches(BaseEdges, c, c)

\* C9: when classes form a cycle through their bases, computing the build
\* order terminates (the interpreter's stack does not overflow) and the cycle
\* is reported as an error.
C9_CycleReported ==
    UnbreakableCycle =>
        /\ finderStatus /= "overflow"
        /\ finderStatus = "ordered" => finderMessages /= <<>>

\* ---- overload matching ----

\* The overloads of which Function.match returns a match under the strict
\* comparison, whatever the order of declaration.
StrictMatches(overloadIds, site) ==
    {o \in Range(overloadIds) : match(Pool[o], site.args, site.kwargs, TRUE, <<>>).outcome = "match"}

\* C10: if exactly one overload of the group matches strictly, curvy_call
\* selects that overload in whatever order the overloads were declared, and
\* the permissive pass is not consulted.
C10_UniqueStrictMatchSelected ==
    \A k \in DOMAIN callLog :
        Cardinality(StrictMatches(callLog[k].overloads, callSite)) = 1 =>
            /\ callLog[k].result.result = "call"
            /\ callLog[k].result.callee \in StrictMatches(callLog[k].overloads, callSite)
            /\ callLog[k].result.passes = 1

\* What curvy_call counts: the strict result, or the permissive one when the
\* strict pass matched nothing.
FinalMatches(strict, permissive) ==
    IF strict.raised = None /\ strict.matches = <<>> THEN permissive ELSE strict
Declared(k) == [overloads |-> callLog[k].overloads, parent |-> group.parent]

\* C11: whenever zero or more than one overload matches the call, curvy_call
\* fails with OverloadMatchError, whatever positional and keyword arguments
\* the call site has.
C11_NoUniqueMatchIsOverloadMatchError ==
    \A k \in DOMAIN callLog :
        (/\ GroupMatch(Declared(k), callSite, TRUE, FALSE).raised = None
         /\ FinalMatches(GroupMatch(Declared(k), callSite, TRUE, FALSE),
                         GroupMatch(Declared(k), callSite, FALSE, TRUE)).raised = None
         /\ Len(FinalMatches(GroupMatch(Declared(k), callSite, TRUE, FALSE),
                             GroupMatch(Declared(k), callSite, FALSE, TRUE)).matches) /= 1)
            => callLog[k].result.result = "OverloadMatchError"

\* The named parameter of the signature a call supplies by name, or not.
SuppliedAt(i) == {j \in DOMAIN callSite.kwargs :
                    callSite.kwargs[j][1] = signature.named_parameters[i].name}
WellTyped ==
    \A j \in DOMAIN callSite.kwargs :
        /\ callSite.kwargs[j][2] = "Int32"
        /\ \E i \in DOMAIN signature.named_parameters :
                signature.named_parameters[i].name = callSite.kwargs[j][1]
Satisfiable ==
    \A i \in DOMAIN signature.named_parameters :
        SuppliedAt(i) /= {} \/ signature.named_parameters[i].has_default_value

\* C12: for every subset of the named parameters supplied by name,
\* Function.match binds each supplied argument to the parameter of its name
\* and every other named parameter to its default, and yields no match when
\* a parameter that was not supplied has no default.
C12_NamedParametersBound ==
    \A k \in DOMAIN matchLog :
        WellTyped =>
            IF Satisfiable
            THEN /\ matchLog[k].result.outcome = "match"
                 /\ \A i \in DOMAIN signature.named_parameters :
                        /\ i \in DOMAIN matchLog[k].result.kwargs_match
                        /\ matchLog[k].result.kwargs_match[i] =
                                IF SuppliedAt(i) /= {} THEN Supplied("Int32")
                                ELSE Default(signature.named_parameters[i])
            ELSE matchLog[k].result.outcome = "none"


\* The scopes a lookup consults: the scope itself, and its whole parent
\* chain unless recursive lookup is disabled.
Consulted(call) == IF call.recursive THEN 1..call.scope ELSE {call.scope}
Bound(call) == \E j \in Consulted(call) : call.name \in DOMAIN call.items[j]

\* C13: lookup_name raises NameNotFound if and only if the name is bound in
\* no consulted scope and no default was supplied; with a default it never
\* raises and returns the default for an unbound name.
C13_LookupRaisesIffUnboundNoDefault ==
    \A k \in DOMAIN scopeLog :
        scopeLog[k].op = "lookup" =>
            /\ scopeLog[k].outcome = "NameNotFoundError"
                    <=> (~Bound(scopeLog[k]) /\ scopeLog[k].default = Absent)
            /\ (scopeLog[k].default /= Absent /\ ~Bound(scopeLog[k]))
                    => (scopeLog[k].outcome = "default" /\ scopeLog[k].value = 0)

\* C14: creating a name that is already bound in the same scope fails with
\* NameAlreadyBound and leaves the existing binding unchanged.
C14_CreateBoundNameFails ==
    \A k \in DOMAIN scopeLog :
        (/\ scopeLog[k].op = "create"
         /\ scopeLog[k].name \in DOMAIN scopeLog[k].items[scopeLog[k].scope])
            => /\ scopeLog[k].outcome = "NameAlreadyBoundError"
               /\ scopeLog[k].after = scopeLog[k].items


\* The paths of the functions that `declarations` declare under `name`, in
\* declaration order.
RECURSIVE DeclaredUnder(_, _, _, _)
DeclaredUnder(declarations, prefix, name, j) ==
    IF j > Len(declarations) THEN <<>>
    ELSE (IF declarations[j].kind = "Function" /\ declarations[j].name = name
          THEN <<Append(prefix, j)>> ELSE <<>>)
         \o DeclaredUnder(declarations, prefix, name, j + 1)

OnlyFunctions(declarations) ==
    \A j \in 1..Len(declarations) : declarations[j].kind = "Function"

\* The overload groups that the registry made for `name` among `declarations`.
GroupsMade(r, declarations, prefix, name) ==
    {j \in 1..Len(declarations) :
        /\ declarations[j].name = name
        /\ \E i \in 1..Len(r.injected) : r.injected[i] = Append(prefix, j)}

OneGroup(r, scope, declarations, prefix, name) ==
    DeclaredUnder(declarations, prefix, name, 1) /= <<>> =>
        /\ Cardinality(GroupsMade(r, declarations, prefix, name)) = 1
        /\ name \in DOMAIN r.items[scope]
        /\ r.items[scope][name].kind = "Group"
        /\ r.overloads[r.items[scope][name].at]
              = DeclaredUnder(declarations, prefix, name, 1)

\* C15: after the registry pass over a document of function declarations,
\* the scope of the document and the body scope of every function bind each
\* function name declared there to one overload group, and the overloads of
\* that group are the functions declared there under the name, in
\* declaration order.
C15_OneGroupPerNameInOrder ==
    /\ processor.ran
    /\ processor.registered
    /\ OnlyFunctions(processor.document)
    /\ \A k \in 1..Len(processor.document) :
          OnlyFunctions(processor.document[k].inner)
    => \A name \in DeclNames :
          /\ OneGroup(processor, 2, processor.document, <<>>, name)
          /\ \A k \in 1..Len(processor.document) :
                OneGroup(processor,
                         processor.mapping[Value("Function", <<k>>)],
                         processor.document[k].inner, <<k>>, name)

\* Two functions declared under one name in the document, the first with a
\* function of that name in its body: the registry has put both in one group
\* and the function of the body in a group of the body scope.
C15_Witness ==
    /\ processor.ran
    /\ processor.registered
    /\ OnlyFunctions(processor.document)
    /\ Len(processor.document) = 2
    /\ processor.document[1].name = "a"
    /\ processor.document[2].name = "a"
    /\ Len(processor.document[1].inner) = 1
    /\ OnlyFunctions(processor.document[1].inner)
    /\ processor.overloads[<<1>>] = << <<1>>, <<2>> >>
    /\ processor.overloads[<<1, 1>>] = << <<1, 1>> >>


\* What the name-linker made of the identifier of top-level declarations of
\* one kind: a declaration inside the declaration itself.
LinkedInside(kind) ==
    \E i \in 1..Len(processor.links) :
        /\ Len(processor.links[i].at) = 1
        /\ processor.document[processor.links[i].at[1]].kind = kind
        /\ processor.links[i].value.kind /= "Object"
        /\ Len(processor.links[i].value.at) = 2
        /\ processor.links[i].value.at[1] = processor.links[i].at[1]

\* C16: the identifier of a function's return type is never resolved to a
\* name that is declared only in the body of the function.
C16_SignatureNotResolvedInBody == ~LinkedInside("Function")

\* C17: the identifier of a class's base is never resolved to a member that
\* is declared in the body of the class.
C17_BasesNotResolvedInClass == ~LinkedInside("Class")

\* What the first call of resolve on a node returned, when it returned: the
\* value of _resolve, or the node when that is None.
FirstReturned(node) ==
    IF node \in DOMAIN processor.returns THEN processor.returns[node] ELSE node

\* C18: a second call of NodeResolver.resolve on a node returns what the
\* first call returned, and resolves nothing again.
C18_ResolveIdempotent ==
    \A i \in 1..Len(resolveLog) :
        resolveLog[i].second =>
            resolveLog[i].returned = FirstReturned(resolveLog[i].node)

\* The identifiers whose lookup failed: resolve entered them and _resolve
\* returned nothing.
FailedIdentifiers ==
    {node \in processor.resolved :
        node.kind = "Identifier" /\ node \notin DOMAIN processor.returns}

\* C19: when the lookup of an identifier fails in the name-linker pass, an
\* error is recorded for it in the state and every top-level declaration of
\* the document is resolved all the same.
C19_FailedLookupRecordedSiblingsResolved ==
    processor.ran =>
        \A node \in FailedIdentifiers :
            /\ \E i \in 1..Len(processor.errors) :
                  processor.errors[i].at = node.at
            /\ \A k \in 1..Len(processor.document) :
                  \/ Value(processor.document[k].kind, <<k>>) \in processor.resolved
                  \/ \E i \in 1..Len(processor.errors) :
                        processor.errors[i].at = <<k>>


\* The contexts of a stack that handle a node: those whose compile returns
\* a result.
Handling(stack, type) ==
    {i \in 1..Len(stack) : context_compile(stack[i], type) /= Absent}

Innermost(indices) == CHOOSE i \in indices : \A j \in indices : j <= i

\* C20: CodeCompiler.compile returns the result of the innermost context of
\* the stack that handles the node; it falls back to the default compiler
\* when and only when no context of the stack handles the node; and a
\* context without a handler for the node's type does not handle it.
C20_InnermostHandlingContextWins ==
    compiled /= Absent =>
        /\ compiled[1].result.fallback
              <=> Handling(compiled[1].stack, compiled[1].node) = {}
        /\ Handling(compiled[1].stack, compiled[1].node) /= {} =>
              compiled[1].result =
                  [outcome |-> "result", fallback |-> FALSE,
                   code |-> context_compile(
                       compiled[1].stack[Innermost(
                           Handling(compiled[1].stack, compiled[1].node))],
                       compiled[1].node)[1]]
        /\ \A i \in 1..Len(compiled[1].stack) :
              compiled[1].node \notin Handlers(compiled[1].stack[i])
                  => i \notin Handling(compiled[1].stack, compiled[1].node)

\* A parameter compiled in a loop inside a function signature inside a
\* function body: the loop context does not handle it, the signature and
\* the body contexts do, and the result is the signature context's.
C20_Witness ==
    /\ compiled /= Absent
    /\ compiled[1].stack = <<"TopLevelCodeCompiler", "FunctionBodyCompiler",
                             "FunctionSignatureCompiler", "LoopBodyCompiler">>
    /\ compiled[1].node = "ResolvedParameter"
    /\ compiled[1].result.code
          = <<Instruction("FunctionSignatureCompiler", "ResolvedParameter")>>


\* Where the instruction emitted for a place sits in the code.
IndexOf(code, at) == CHOOSE i \in 1..Len(code) : code[i].at = at

\* The instruction right after the else block of loop n, or right after the
\* jump back to the condition when the loop has no else block.
AfterElse(code, n, else) ==
    IF else THEN IndexOf(code, <<n, "else", 1>>) + 1
    ELSE IndexOf(code, <<n, "again", 0>>) + 1

TargetsOf(code, n, else) ==
    /\ IndexOf(code, <<n, "continue", 0>>) = IndexOf(code, <<n, "condition", 1>>)
    /\ IndexOf(code, <<n, "break", 0>>) = AfterElse(code, n, else)

\* C21: in the instructions emitted for a while loop, the continue target
\* of the loop is the first instruction of its condition, and its break
\* target is the instruction right after its else block, or right after
\* the loop when it has none.
C21_LoopTargets ==
    loopCode /= Absent /\ loopCode[1].outcome = "result" =>
        /\ TargetsOf(loopCode[1].code, 1, loopProgram[1].else)
        /\ loopProgram[1].inner /= Absent =>
              TargetsOf(loopCode[1].code, 2, loopProgram[1].inner[1].else)

\* The jump that a break or continue of a loop body compiles to: to the
\* break or continue target of the loop it names, or of the loop whose body
\* it is in when it names none.
JumpsRight(code, statements, n, part) ==
    \A k \in 1..Len(statements) :
        statements[k].kind \in {"break", "continue"} =>
            code[IndexOf(code, <<n, part, k>>)]
                = Op("Jump", <<n, part, k>>,
                     <<IF statements[k].label /= 0 THEN statements[k].label
                       ELSE n, statements[k].kind, 0>>)

\* C22: in nested while loops every break and continue compiles to a jump
\* to the target of the loop it names, or of the innermost enclosing loop
\* when it names none; after the inner loop, those of the outer body target
\* the outer loop again.
C22_BreakContinueTargets ==
    loopCode /= Absent =>
        /\ loopCode[1].outcome = "result"
        /\ JumpsRight(loopCode[1].code, loopProgram[1].pre, 1, "pre")
        /\ JumpsRight(loopCode[1].code, loopProgram[1].post, 1, "post")
        /\ loopProgram[1].inner /= Absent =>
              JumpsRight(loopCode[1].code, loopProgram[1].inner[1].body,
                         2, "body")


\* The import systems of a chain, from system i up, that register a scheme.
Registering(chain, i, scheme) ==
    {j \in 1..i : scheme \in DOMAIN chain[j]}

Nearest(indices) == CHOOSE i \in indices : \A j \in indices : j <= i

\* C23: import_from with a source scheme:rest calls the importer that the
\* nearest import system of the parent chain registers under the scheme,
\* and no other, with rest as its source; when no import system of the
\* chain registers the scheme, the import fails and calls no importer.
C23_NearestRegisteredImporter ==
    imported /= Absent
      /\ scheme_match(imported[1].source, LettersOf(imported[1].source, 1))
            /= Absent
    => IF Registering(imported[1].chain, Len(imported[1].chain),
                      scheme_match(imported[1].source,
                                   LettersOf(imported[1].source, 1))[1].importer)
              = {}
       THEN imported[1].result = Import("KeyError", <<>>)
       ELSE imported[1].result.calls =
              <<ImporterCall(
                  Nearest(Registering(imported[1].chain, Len(imported[1].chain),
                      scheme_match(imported[1].source,
                                   LettersOf(imported[1].source, 1))[1].importer)),
                  scheme_match(imported[1].source,
                               LettersOf(imported[1].source, 1))[1].source)>>


\* The last token, and only the last, is EOF.
OnlyLastIsEOF(tokens) ==
    /\ tokens /= <<>>
    /\ \A k \in 1..Len(tokens) : (tokens[k].type = "EOF") <=> (k = Len(tokens))

\* C24: tokenize terminates for every text, and the tokens it has yielded
\* when it ends are a sequence whose last token and no other is EOF; this
\* includes a text that ends inside a string literal or a block comment.
C24_TokenizeEndsWithEOF ==
    <>(tokenizer /= Absent /\ tokenizer[1].at = "finished"
                           /\ OnlyLastIsEOF(tokenizer[1].tokens))


\* The cases of a when whose value equals the subject.
EqualCases(when) == {k \in 1..Len(when.cases) : when.cases[k].equal}

\* The first body that runs is the one of the first case equal to the
\* subject, and no body runs when there is none.
FirstEqualRuns(when, trace) ==
    IF EqualCases(when) = {} THEN trace.bodies = <<>>
    ELSE /\ trace.bodies /= <<>>
         /\ trace.bodies[1] \in EqualCases(when)
         /\ \A k \in EqualCases(when) : trace.bodies[1] <= k

\* After a body that ends with continue the body of the next case runs and
\* its value is not compared; after a body that ends normally or with break
\* no other body runs.
FallsThrough(when, trace) ==
    \A n \in 1..Len(trace.bodies) :
        IF when.cases[trace.bodies[n]].body = "continue"
              /\ trace.bodies[n] < Len(when.cases)
        THEN /\ n < Len(trace.bodies)
             /\ trace.bodies[n + 1] = trace.bodies[n] + 1
             /\ \A c \in 1..Len(trace.compared) :
                    trace.compared[c] /= trace.bodies[n] + 1
        ELSE n = Len(trace.bodies)

\* C25: in a when, the first case equal to the subject runs its body; a
\* continue in a body goes on with the body of the next case without
\* comparing it; a body that completes, or a break, ends the when; the else
\* body runs only if no case body ran.
C25_WhenCases ==
    whenRun /= Absent
    => /\ FirstEqualRuns(whenNode[1], whenRun[1])
       /\ FallsThrough(whenNode[1], whenRun[1])
       /\ whenRun[1].else_ran => whenRun[1].bodies = <<>>


\* Function.match on the arguments of a call with other positional
\* arguments.
FunctionMatchOn(call, positional_arguments) ==
    function_match([call EXCEPT !.positional_arguments = positional_arguments])

ArgumentsOf(call, of) ==
    IF of = "Method" THEN with_instance(call) ELSE call.positional_arguments

\* The types of the arguments that a call matches against the generic
\* parameter g when no check fails, in the order of the checks: the
\* positional arguments under the zip, then the named arguments.
MatchedAgainst(call, args, g) ==
    SelectSeq([i \in 1..Len(args) |->
                  IF i <= Len(call.signature.positional_parameters)
                        /\ call.signature.positional_parameters[i].parameter_type = g
                  THEN Some(args[i]) ELSE Absent],
              LAMBDA x : x /= Absent)
    \o SelectSeq([i \in 1..Len(call.named_arguments) |->
                  IF \E k \in DOMAIN call.signature.named_parameters :
                        /\ call.signature.named_parameters[k].name
                              = call.named_arguments[i][1]
                        /\ call.signature.named_parameters[k].parameter_type = g
                  THEN Some(call.named_arguments[i][2]) ELSE Absent],
              LAMBDA x : x /= Absent)

Accepted(strict, source, target) ==
    IF strict THEN are_identical(source, target)
    ELSE assignable_to(source, target)

\* A generic parameter that the type_mappings of the call bind at entry
\* keeps that binding; one that they do not bind is bound, if at all, to
\* the type of the first argument matched against it.
BindingOf(call, result, matched, g) ==
    IF g \in DOMAIN mappings_of(call.type_mappings)
    THEN g \in DOMAIN result.mappings
            /\ result.mappings[g] = mappings_of(call.type_mappings)[g]
    ELSE g \in DOMAIN result.mappings
            => matched /= <<>> /\ result.mappings[g] = matched[1][1]

\* A match that succeeds has bound the generic parameter if an argument was
\* matched against it, and every such argument is accepted against the
\* binding.
AllAccepted(call, result, matched, g) ==
    result.outcome = "match" /\ matched /= <<>>
    => /\ g \in DOMAIN result.mappings
       /\ \A n \in 1..Len(matched) :
              Accepted(call.strict, matched[n][1], result.mappings[g])

\* C27: during one call of match a generic parameter is bound to the type
\* of the first argument matched against it and the binding never changes;
\* the match succeeds only if every later argument matched against the
\* same generic parameter, positional or named, is accepted against the
\* bound type.
C27_GenericBindingConsistent ==
    matchReturn /= Absent
    => \A g \in GenericParameters :
          /\ BindingOf(matchCall[1], matchReturn[1].result,
                 MatchedAgainst(matchCall[1],
                     ArgumentsOf(matchCall[1], matchReturn[1].of), g), g)
          /\ AllAccepted(matchCall[1], matchReturn[1].result,
                 MatchedAgainst(matchCall[1],
                     ArgumentsOf(matchCall[1], matchReturn[1].of), g), g)

\* A match has succeeded in which a generic parameter that was not bound
\* at entry was matched against two positional arguments and a named one.
C27_Witness ==
    /\ matchReturn /= Absent
    /\ matchReturn[1].of = "Function"
    /\ matchReturn[1].result.outcome = "match"
    /\ "T" \notin DOMAIN mappings_of(matchCall[1].type_mappings)
    /\ Len(MatchedAgainst(matchCall[1], matchCall[1].positional_arguments,
                          "T")) = 3
    /\ matchReturn[1].result.mappings["T"] = matchCall[1].positional_arguments[1]


\* C29: a call of Function.match or Method.match that returns no match
\* leaves the type_mappings dictionary that the caller supplied as it was.
C29_NoMatchLeavesTypeMappings ==
    matchReturn /= Absent
      /\ matchCall[1].type_mappings /= Absent
      /\ matchReturn[1].result.outcome = "none"
    => matchReturn[1].result.mappings = matchCall[1].type_mappings[1]


\* C28: the cache maps a node to one object for the whole compilation: once
\* a node has a cached object, no step replaces it with another object.
C28_CacheEntryNeverReplaced ==
    [][\A node \in DOMAIN cache :
          cache[node] /= Absent
          => node \in DOMAIN cache' /\ cache'[node] = cache[node]]_vars


\* The overloads of group g that accept the argument types.
Accepting(chain, g, types) ==
    {i \in 1..Len(chain[g]) : ~get_type_of_call(chain[g][i], types).raised}

\* The groups of the chain that have an accepting overload.
AcceptingGroups(chain, types) ==
    {g \in 1..Len(chain) : Accepting(chain, g, types) /= {}}

NearestGroup(chain, types) ==
    CHOOSE g \in AcceptingGroups(chain, types) :
        \A h \in AcceptingGroups(chain, types) : g <= h

\* C30: OverloadGroup.call invokes the overload when exactly one overload
\* of the group, or of the nearest parent group that has an accepting one
\* when the group has none, accepts the argument types; it raises TypeError
\* exactly when no overload or more than one accepts them.
C30_CallInvokesTheOnlyAcceptingOverload ==
    groupCall /= Absent
    => IF AcceptingGroups(groupChain, groupCall[1].types) /= {}
          /\ Cardinality(Accepting(groupChain,
                 NearestGroup(groupChain, groupCall[1].types),
                 groupCall[1].types)) = 1
       THEN /\ groupCall[1].result.outcome = "call"
            /\ groupCall[1].result.overload[1][1]
                  = NearestGroup(groupChain, groupCall[1].types)
            /\ groupCall[1].result.overload[1][2]
                  \in Accepting(groupChain,
                         NearestGroup(groupChain, groupCall[1].types),
                         groupCall[1].types)
       ELSE groupCall[1].result.outcome = "TypeError"

=============================================================================
